---- MODULE Spec2Model ----
(***************************************************************************)
(* A model of lirashield: the transaction log and its holdings check       *)
(* (core/database.py), the FIFO lot engine (services/fifo.py) and the      *)
(* exchange-rate store and resolver (core/database.py, core/analysis.py).  *)
(*                                                                         *)
(* Calendar dates are day numbers: the code compares ISO "YYYY-MM-DD"      *)
(* strings, whose lexicographic order is the order of the days.            *)
(* Quantities, prices and rates are integers, so the arithmetic is exact;  *)
(* a quotient the code computes in floating point is kept as the pair      *)
(* <<numerator, denominator>>.                                             *)
(***************************************************************************)
EXTENDS Integers, Sequences, FiniteSets, TLC

VARIABLES
    transactions,       \* table transactions: its rows in id order
    next_id,            \* the id AUTOINCREMENT hands out next
    fund_prices,        \* table fund_prices: rows, UNIQUE(date, ticker)
    tx_status,          \* what the last add/delete_transaction returned (per caller, side by side)
    ticker,             \* the ticker argument of calculate_fifo_for_ticker
    fifo,               \* the locals of one calculate_fifo_for_ticker call
    errors,             \* analyze_portfolio's errors list, and whether it ran
    cpi_usd_rates,      \* table cpi_usd_rates: rows, date UNIQUE
    market,             \* the closes yfinance holds: rows [date, close]
    call,               \* the last rate lookup and what it returned
    cpi_official,       \* table cpi_official: rows, year_month UNIQUE
    cpi_call,           \* the last CPI calculation and what it returned
    rr,                 \* the last calculate_real_return call: arguments, locals, result
    report              \* what the last analysis call returned or raised

vars == <<transactions, next_id, fund_prices, tx_status, ticker, fifo, errors,
          cpi_usd_rates, market, call, cpi_official, cpi_call, rr, report>>

fifoVars == <<ticker, fifo, errors>>
dbVars == <<transactions, next_id, fund_prices, tx_status>>
rateVars == <<cpi_usd_rates, market, call>>
calcVars == <<cpi_official, cpi_call, rr, report>>

NULL == "NULL"

\* SQL NULL / Python None / pandas NaN in a numeric column; a value v of such a
\* column is <<v>>
None == <<>>

\* ------------------------------------------------------------ bounds
MaxRows == 3
MaxDate == 2

Dates == 1..MaxDate

\* ------------------------------------------------- program constants
TX_BUY == "BUY"
TX_SELL == "SELL"
ASSET_TEFAS == "TEFAS"
ASSET_USD_STOCK == "USD_STOCK"
ASSET_CASH == "CASH"
CURRENCY_TRY == "TRY"
CURRENCY_USD == "USD"

\* ------------------------------------------------------------ helpers
RECURSIVE SumSeq(_, _)
\* sum(f(x) for x in s) over a sequence s and a field name f
SumSeq(s, f) == IF s = <<>> THEN 0 ELSE Head(s)[f] + SumSeq(Tail(s), f)

\* the permutations of 1..n
Perms(n) == {p \in [1..n -> 1..n] : \A i, j \in 1..n : i # j => p[i] # p[j]}

\* the rows of sequence s that satisfy Keep, in s's order
RECURSIVE SelectRows(_, _, _)
SelectRows(s, field, value) ==
    IF s = <<>> THEN <<>>
    ELSE IF Head(s)[field] = value
         THEN <<Head(s)>> \o SelectRows(Tail(s), field, value)
         ELSE SelectRows(Tail(s), field, value)

\* ===================================================================
\* The transaction feed
\* ===================================================================

\* The rows the FIFO specification draws its transaction logs from. The
\* first ticker carries the documented scenario (buys of 100 @ 10
\* and 50 @ 15, a sell of 120 @ 20); a sell row keeps a tax_rate of its own,
\* different from every buy's.
FifoTickers == {"AAA", "BBB"}
BuyKinds ==
    { [quantity |-> 100, price_per_share |-> 10, tax_rate |-> 0],
      [quantity |-> 50,  price_per_share |-> 15, tax_rate |-> 10] }
SellKinds ==
    { [quantity |-> 120, price_per_share |-> 20, tax_rate |-> 5],
      [quantity |-> 50,  price_per_share |-> 12, tax_rate |-> 7] }

\* A row of table transactions (lines 63-75) but for its id; notes and
\* created_at, which nothing reads, are left out.
MkRow(t, ty, k, d) ==
    [ticker |-> t, transaction_type |-> ty, date |-> d,
     quantity |-> k.quantity, price_per_share |-> <<k.price_per_share>>,
     tax_rate |-> k.tax_rate,
     asset_type |-> IF t = "AAA" THEN ASSET_TEFAS ELSE ASSET_USD_STOCK,
     currency |-> IF t = "AAA" THEN CURRENCY_TRY ELSE CURRENCY_USD]

RowKinds ==
    {MkRow("AAA", TX_BUY, k, d) : k \in BuyKinds, d \in Dates}
    \cup {MkRow("AAA", TX_SELL, k, d) : k \in SellKinds, d \in Dates}
    \cup {MkRow("BBB", TX_BUY, k, d) :
            k \in {[quantity |-> 50, price_per_share |-> 15, tax_rate |-> 10]},
            d \in {1}}

WithId(r, i) ==
    [id |-> i, date |-> r.date, ticker |-> r.ticker, quantity |-> r.quantity,
     price_per_share |-> r.price_per_share, tax_rate |-> r.tax_rate,
     asset_type |-> r.asset_type, currency |-> r.currency,
     transaction_type |-> r.transaction_type]

\* The logs: up to MaxRows rows in insertion order, ids 1, 2, ... as
\* AUTOINCREMENT hands them out.
IsLog(table) ==
    \E n \in 0..MaxRows :
        \E s \in [1..n -> RowKinds] : table = [i \in 1..n |-> WithId(s[i], i)]

\* get_fund_price_for_date: the price of the exact date, else (unless
\* exact_match) that of the closest earlier date, else None
get_fund_price_for_date(prices, t, date, exact_match) ==
    LET exact == {r \in prices : r.ticker = t /\ r.date = date}
        earlier == {r \in prices : r.ticker = t /\ r.date <= date}
    IN IF exact # {} THEN <<(CHOOSE r \in exact : TRUE).price>>
       ELSE IF exact_match \/ earlier = {} THEN None
       ELSE <<(CHOOSE r \in earlier : \A o \in earlier : o.date <= r.date).price>>

\* lines 311-317: the price_per_share column of get_portfolio
PortfolioPrice(row, prices) ==
    IF row.asset_type = ASSET_CASH THEN <<1>>
    ELSE IF row.price_per_share # None THEN row.price_per_share
    ELSE get_fund_price_for_date(prices, row.ticker, row.date, FALSE)

\* get_portfolio: SELECT ... ORDER BY t.date DESC. The query names no second
\* key, so SQL leaves the order of the rows of one date open: every
\* arrangement with non-increasing dates is a possible result.
get_portfolio(table, prices) ==
    LET n == Len(table)
        priced == [i \in 1..n |->
                     [table[i] EXCEPT !.price_per_share = PortfolioPrice(table[i], prices)]]
    IN { [i \in 1..n |-> priced[p[i]]] :
            p \in {q \in Perms(n) :
                     \A i \in 1..n - 1 : priced[q[i]].date >= priced[q[i + 1]].date} }

\* ===================================================================
\* services/fifo.py: calculate_fifo_for_ticker
\* ===================================================================

\* df[df["ticker"] == ticker]
FilterTicker(rows, t) == SelectRows(rows, "ticker", t)

\* .sort_values("date", ascending=True): pandas sorts with kind="quicksort",
\* which is not stable, so the rows of one date come out in an order the
\* library does not fix: every arrangement with non-decreasing dates.
sort_values(rows) ==
    LET n == Len(rows)
    IN { [i \in 1..n |-> rows[p[i]]] :
            p \in {q \in Perms(n) :
                     \A i \in 1..n - 1 : rows[q[i]].date <= rows[q[i + 1]].date} }

OpenLot(row, asset_type, currency) ==
    [buy_id |-> row.id, buy_date |-> row.date, buy_price |-> row.price_per_share,
     quantity |-> row.quantity, remaining_quantity |-> row.quantity,
     cost_basis |-> row.price_per_share * row.quantity,
     tax_rate |-> row.tax_rate, asset_type |-> asset_type, currency |-> currency]

\* LotMatch with the tax rate read from the SELL row instead of the lot
LotMatchTaxFromSell(lot, sell, matched_qty) ==
    LET cost_basis == lot.buy_price * matched_qty
        proceeds == sell.price_per_share * matched_qty
        realized_gain == proceeds - cost_basis
    IN [buy_date |-> lot.buy_date, buy_price |-> lot.buy_price,
        sell_date |-> sell.date, sell_price |-> sell.price_per_share,
        quantity |-> matched_qty, cost_basis |-> cost_basis,
        proceeds |-> proceeds, realized_gain |-> realized_gain,
        realized_gain_pct |-> IF cost_basis > 0
                              THEN <<realized_gain * 100, cost_basis>>
                              ELSE <<0, 1>>,
        holding_days |-> sell.date - lot.buy_date,
        tax_rate |-> sell.tax_rate]

\* lines 127-151 and 161-185: the LotMatch of matched_qty shares of lot
\* against the SELL row sell
LotMatch(lot, sell, matched_qty) ==
    LET cost_basis == lot.buy_price * matched_qty
        proceeds == sell.price_per_share * matched_qty
        realized_gain == proceeds - cost_basis
    IN [buy_date |-> lot.buy_date, buy_price |-> lot.buy_price,
        sell_date |-> sell.date, sell_price |-> sell.price_per_share,
        quantity |-> matched_qty, cost_basis |-> cost_basis,
        proceeds |-> proceeds, realized_gain |-> realized_gain,
        realized_gain_pct |-> IF cost_basis > 0
                              THEN <<realized_gain * 100, cost_basis>>
                              ELSE <<0, 1>>,
        holding_days |-> sell.date - lot.buy_date,
        tax_rate |-> lot.tax_rate]

\* oldest_lot peeking at the newest lot (open_lots[-1])
NewestLot(open_lots) == open_lots[Len(open_lots)]

\* line 120: oldest_lot = open_lots[0]
oldest_lot(open_lots) == open_lots[1]

\* the test of line 122 never taking the whole lot
NeverFullyConsumes(lot, need) == FALSE

\* a test that leaves a lot matched to its last share in the queue
ConsumesMoreThanAll(lot, need) == lot.remaining_quantity < need

\* line 122: the head lot is consumed whole
FullyConsumes(lot, need) == lot.remaining_quantity <= need

\* a partial match that forgets to shrink the lot
PartiallyConsumedUnchanged(lot, matched_qty) == lot

\* lines 188-189: the head lot after a partial match
PartiallyConsumed(lot, matched_qty) ==
    [lot EXCEPT !.remaining_quantity = lot.remaining_quantity - matched_qty,
                !.cost_basis = lot.buy_price * (lot.remaining_quantity - matched_qty)]

\* lines 191-209
FIFOResult(t, asset_type, currency, open_lots, closed_lots) ==
    LET total_shares == SumSeq(open_lots, "remaining_quantity")
        total_cost_basis == SumSeq(open_lots, "cost_basis")
    IN [ticker |-> t, asset_type |-> asset_type, currency |-> currency,
        open_lots |-> open_lots, closed_lots |-> closed_lots,
        total_shares_held |-> total_shares,
        total_cost_basis |-> total_cost_basis,
        avg_cost_per_share |-> IF total_shares > 0
                               THEN <<total_cost_basis, total_shares>>
                               ELSE <<0, 1>>,
        total_realized_gain |-> SumSeq(closed_lots, "realized_gain"),
        total_proceeds |-> SumSeq(closed_lots, "proceeds")]

\* line 79: the result for a ticker without transactions
EmptyResult(t) == FIFOResult(t, "", "", <<>>, <<>>)

\* The locals of a call before its first statement.
FifoEntry ==
    [pc |-> "entry", ticker_df |-> <<>>, i |-> 1, asset_type |-> "",
     currency |-> "", open_lots |-> <<>>, closed_lots |-> <<>>,
     sell_quantity_remaining |-> 0, result |-> NULL]

\* lines 76-88, for one outcome sorted of the sort
AfterSort(t, sorted) ==
    IF sorted = <<>>
    THEN [FifoEntry EXCEPT !.pc = "done", !.result = EmptyResult(t)]
    ELSE [FifoEntry EXCEPT !.pc = "for", !.ticker_df = sorted,
                           !.asset_type = sorted[1].asset_type,
                           !.currency = sorted[1].currency]

\* lines 90-96: the row of the for loop's current iteration, its price 0.0
\* when get_portfolio found none
Row(s) ==
    LET row == s.ticker_df[s.i]
    IN [row EXCEPT !.price_per_share =
            IF row.price_per_share = None THEN 0 ELSE row.price_per_share[1]]

AtRow(s) == s.pc = "for" /\ s.i <= Len(s.ticker_df)

\* lines 98-111
BuyStep(s) ==
    [s EXCEPT !.open_lots = Append(s.open_lots,
                                   OpenLot(Row(s), s.asset_type, s.currency)),
              !.i = s.i + 1]

\* lines 113-117
SellBeginStep(s) ==
    [s EXCEPT !.pc = "while", !.sell_quantity_remaining = Row(s).quantity]

\* line 119: the condition of the while loop
LoopCondition(s) == s.sell_quantity_remaining > 0 /\ s.open_lots # <<>>

\* lines 122-154
MatchFullStep(s) ==
    LET lot == oldest_lot(s.open_lots)
        matched_qty == lot.remaining_quantity
    IN [s EXCEPT !.sell_quantity_remaining = s.sell_quantity_remaining - matched_qty,
                 !.closed_lots = Append(s.closed_lots, LotMatch(lot, Row(s), matched_qty)),
                 !.open_lots = Tail(s.open_lots)]

\* lines 156-189
MatchPartialStep(s) ==
    LET lot == oldest_lot(s.open_lots)
        matched_qty == s.sell_quantity_remaining
    IN [s EXCEPT !.sell_quantity_remaining = 0,
                 !.closed_lots = Append(s.closed_lots, LotMatch(lot, Row(s), matched_qty)),
                 !.open_lots = [s.open_lots EXCEPT ![1] = PartiallyConsumed(lot, matched_qty)]]

\* line 119 false: the while loop ends and the for loop goes on
SellEndStep(s) == [s EXCEPT !.pc = "for", !.i = s.i + 1]

\* lines 191-209
ReturnStep(s, t) ==
    [s EXCEPT !.pc = "done",
              !.result = FIFOResult(t, s.asset_type, s.currency,
                                    s.open_lots, s.closed_lots)]

\* One step of the call after the sort; the code is deterministic from there.
Step(s, t) ==
    CASE AtRow(s) /\ Row(s).transaction_type = TX_BUY -> BuyStep(s)
      [] AtRow(s) /\ Row(s).transaction_type = TX_SELL -> SellBeginStep(s)
      [] s.pc = "while" /\ LoopCondition(s)
            /\ FullyConsumes(oldest_lot(s.open_lots), s.sell_quantity_remaining)
            -> MatchFullStep(s)
      [] s.pc = "while" /\ LoopCondition(s)
            /\ ~FullyConsumes(oldest_lot(s.open_lots), s.sell_quantity_remaining)
            -> MatchPartialStep(s)
      [] s.pc = "while" /\ ~LoopCondition(s) -> SellEndStep(s)
      [] s.pc = "for" /\ s.i > Len(s.ticker_df) -> ReturnStep(s, t)

RECURSIVE RunToEnd(_, _)
RunToEnd(s, t) == IF s.pc = "done" THEN s.result ELSE RunToEnd(Step(s, t), t)

\* Every FIFOResult calculate_fifo_for_ticker(rows, t) can return.
calculate_fifo_for_ticker(rows, t) ==
    {RunToEnd(AfterSort(t, sorted), t) : sorted \in sort_values(FilterTicker(rows, t))}

\* calculate_fifo_all_tickers, lines 219-227: the tickers of the portfolio
UniqueTickers(table) == {table[n].ticker : n \in 1..Len(table)}

\* ---------------------------------------------- the call, step by step
\* calculate_fifo_all_tickers reads get_portfolio() (line 219) and hands it
\* to calculate_fifo_for_ticker, which filters and sorts it (lines 76-88)
FifoSort ==
    /\ fifo.pc = "entry"
    /\ \E frame \in get_portfolio(transactions, fund_prices) :
          \E sorted \in sort_values(FilterTicker(frame, ticker)) :
             fifo' = AfterSort(ticker, sorted)
    /\ UNCHANGED <<ticker, errors, dbVars, rateVars, calcVars>>

FifoBuy ==
    /\ AtRow(fifo) /\ Row(fifo).transaction_type = TX_BUY
    /\ fifo' = BuyStep(fifo)
    /\ UNCHANGED <<ticker, errors, dbVars, rateVars, calcVars>>

FifoSellBegin ==
    /\ AtRow(fifo) /\ Row(fifo).transaction_type = TX_SELL
    /\ fifo' = SellBeginStep(fifo)
    /\ UNCHANGED <<ticker, errors, dbVars, rateVars, calcVars>>

FifoMatchFull ==
    /\ fifo.pc = "while" /\ LoopCondition(fifo)
    /\ FullyConsumes(oldest_lot(fifo.open_lots), fifo.sell_quantity_remaining)
    /\ fifo' = MatchFullStep(fifo)
    /\ UNCHANGED <<ticker, errors, dbVars, rateVars, calcVars>>

FifoMatchPartial ==
    /\ fifo.pc = "while" /\ LoopCondition(fifo)
    /\ ~FullyConsumes(oldest_lot(fifo.open_lots), fifo.sell_quantity_remaining)
    /\ fifo' = MatchPartialStep(fifo)
    /\ UNCHANGED <<ticker, errors, dbVars, rateVars, calcVars>>

FifoSellEnd ==
    /\ fifo.pc = "while" /\ ~LoopCondition(fifo)
    /\ fifo' = SellEndStep(fifo)
    /\ UNCHANGED <<ticker, errors, dbVars, rateVars, calcVars>>

FifoReturn ==
    /\ fifo.pc = "for" /\ fifo.i > Len(fifo.ticker_df)
    /\ fifo' = ReturnStep(fifo, ticker)
    /\ UNCHANGED <<ticker, errors, dbVars, rateVars, calcVars>>


\* ===================================================================
\* services/analysis.py: the errors list of analyze_portfolio
\* ===================================================================

\* line 147: the entry appended for an open lot whose calculate_real_return
\* returned {"error": ...} (core/analysis.py line 162)
LotError(t, lot) ==
    [ticker |-> t, buy_date |-> lot.buy_date,
     error |-> "Missing both USD and CPI data"]

\* lines 89-147 over the open lots from index i on: the lots in failing are
\* those for which neither benchmark could be computed
RECURSIVE LotErrors(_, _, _, _)
LotErrors(t, lots, failing, i) ==
    IF i > Len(lots) THEN <<>>
    ELSE (IF i \in failing THEN <<LotError(t, lots[i])>> ELSE <<>>)
         \o LotErrors(t, lots, failing, i + 1)

\* lines 62-196 for the ticker's FIFOResult: errors collects one entry per
\* open lot without benchmark data, and nothing else. Whether a lot has
\* benchmark data depends on its buy date (missing: the dates without). A
\* cash lot is never analysed against the benchmarks (lines 107-114).
AnalyzeOpenLots ==
    /\ fifo.pc = "done" /\ ~errors.ran
    /\ \E missing \in SUBSET Dates :
          LET failing == {n \in 1..Len(fifo.result.open_lots) :
                            /\ fifo.result.open_lots[n].buy_date \in missing
                            /\ fifo.result.asset_type # ASSET_CASH}
          IN
          /\ errors' = [ran |-> TRUE,
                        list |-> LotErrors(ticker, fifo.result.open_lots, failing, 1)]
    /\ UNCHANGED <<ticker, fifo, dbVars, rateVars, calcVars>>

\* ===================================================================
\* The FIFO specification: a log, read by get_portfolio, replayed for
\* one of its tickers
\* ===================================================================
\* no rate lookup made yet
NoCall == [op |-> "none", date |-> 0, flag |-> FALSE, ret |-> None]
IdleRates == cpi_usd_rates = {} /\ market = {} /\ call = NoCall
\* no CPI calculation made yet
NoCpiCall == [start_date |-> [ym |-> 0, day |-> 0], end_date |-> [ym |-> 0, day |-> 0],
              ret |-> None]
\* no real return calculated yet, no analysis made yet
NoReturn == [op |-> "none"]
NoReport == [op |-> "none"]
IdleCalc ==
    /\ cpi_official = {} /\ cpi_call = NoCpiCall
    /\ rr = NoReturn /\ report = NoReport
IdleDb ==
    /\ transactions = <<>> /\ next_id = 1
    /\ fund_prices = {} /\ tx_status = NULL
NotAnalysed == [ran |-> FALSE, list |-> <<>>]
IdleFifo == ticker = NULL /\ fifo = FifoEntry /\ errors = NotAnalysed

InitFifo ==
    /\ IsLog(transactions)
    /\ next_id = Len(transactions) + 1
    /\ fund_prices = {}
    /\ tx_status = NULL
    /\ ticker \in FifoTickers
    /\ fifo = FifoEntry
    /\ errors = NotAnalysed
    /\ IdleRates /\ IdleCalc

NextFifo ==
    \/ FifoSort
    \/ FifoBuy
    \/ FifoSellBegin
    \/ FifoMatchFull
    \/ FifoMatchPartial
    \/ FifoSellEnd
    \/ FifoReturn
    \/ AnalyzeOpenLots

SpecFifo == InitFifo /\ [][NextFifo]_vars

\* ===================================================================
\* core/database.py: add_transaction, get_ticker_holdings,
\* delete_transaction
\* ===================================================================

\* ticker.upper().strip()
ticker_upper(t) == IF t = " aaa" THEN "AAA" ELSE t

RECURSIVE SumCase(_, _, _, _)
\* COALESCE(SUM(CASE WHEN transaction_type = ty THEN quantity ELSE 0 END), 0)
\* ... WHERE ticker = t AND date <= as_of_date
SumCase(table, t, as_of_date, ty) ==
    IF table = <<>> THEN 0
    ELSE (IF /\ Head(table).ticker = t
             /\ Head(table).date <= as_of_date
             /\ Head(table).transaction_type = ty
          THEN Head(table).quantity ELSE 0)
         + SumCase(Tail(table), t, as_of_date, ty)

\* get_ticker_holdings with an as_of_date, as add_transaction calls it
get_ticker_holdings(table, t, as_of_date) ==
    SumCase(table, ticker_upper(t), as_of_date, TX_BUY)
        - SumCase(table, ticker_upper(t), as_of_date, TX_SELL)

\* INSERT INTO transactions (...) VALUES (...): the row gets the next id
Insert(table, id, date, t, quantity, tax_rate, asset_type, currency, tx_type, price) ==
    Append(table,
           [id |-> id, date |-> date, ticker |-> t, quantity |-> quantity,
            price_per_share |-> price, tax_rate |-> tax_rate,
            asset_type |-> asset_type, currency |-> currency,
            transaction_type |-> tx_type])

\* The arguments add_transaction is called with. Date 0 stands for a string
\* strptime rejects; the services hand over a positive quantity and a
\* price that is None or positive (services/portfolio.py lines 62-68).
DateInputs == 0..MaxDate
Instruments ==
    { [ticker |-> "AAA", asset_type |-> ASSET_TEFAS, currency |-> CURRENCY_TRY],
      [ticker |-> " aaa", asset_type |-> ASSET_TEFAS, currency |-> CURRENCY_TRY],
      [ticker |-> "CASH_TRY", asset_type |-> ASSET_CASH, currency |-> CURRENCY_TRY] }
TypeInputs == {TX_BUY, TX_SELL, "HOLD"}
QuantityInputs == {50, 100}
PriceInputs == {None, <<10>>}

\* add_transaction(date, ticker, quantity, tax_rate, notes, asset_type,
\* currency, transaction_type, price_per_share)
add_transaction(date, t, quantity, tax_rate, asset_type, currency, tx_type, price_per_share) ==
    LET manual == price_per_share # None /\ price_per_share[1] > 0
        price == IF manual THEN price_per_share
                 ELSE get_fund_price_for_date(fund_prices, ticker_upper(t), date, FALSE)
        holdings == get_ticker_holdings(transactions, t, date)
        stored_price == IF manual THEN price_per_share ELSE None
    IN
    IF date \notin Dates
    THEN /\ tx_status' = "Error: Date must be in YYYY-MM-DD format"
         /\ UNCHANGED <<transactions, next_id>>
    ELSE IF tx_type \notin {TX_BUY, TX_SELL}
    THEN /\ tx_status' = "Invalid transaction type"
         /\ UNCHANGED <<transactions, next_id>>
    ELSE IF asset_type = ASSET_CASH
    THEN /\ transactions' = Insert(transactions, next_id, date, ticker_upper(t),
                                   quantity, tax_rate, asset_type, currency,
                                   tx_type, <<1>>)
         /\ next_id' = next_id + 1
         /\ tx_status' = IF tx_type = TX_BUY THEN "Cash added" ELSE "Cash withdrawn"
    ELSE IF price = None
    THEN /\ tx_status' = "No price found"
         /\ UNCHANGED <<transactions, next_id>>
    ELSE IF tx_type = TX_SELL /\ holdings < quantity
    THEN /\ tx_status' = "Insufficient shares"
         /\ UNCHANGED <<transactions, next_id>>
    ELSE /\ transactions' = Insert(transactions, next_id, date, ticker_upper(t),
                                   quantity, tax_rate, asset_type, currency,
                                   tx_type, stored_price)
         /\ next_id' = next_id + 1
         /\ tx_status' = tx_type

AddTransaction ==
    /\ next_id <= MaxRows
    /\ \E date \in DateInputs, ins \in Instruments, quantity \in QuantityInputs,
          tx_type \in TypeInputs, price_per_share \in PriceInputs :
          add_transaction(date, ins.ticker, quantity, 0, ins.asset_type,
                          ins.currency, tx_type, price_per_share)
    /\ UNCHANGED <<fund_prices, fifoVars, rateVars, calcVars>>

RECURSIVE DeleteWhereId(_, _)
\* DELETE FROM transactions WHERE id = ?
DeleteWhereId(table, transaction_id) ==
    IF table = <<>> THEN <<>>
    ELSE IF Head(table).id = transaction_id
         THEN DeleteWhereId(Tail(table), transaction_id)
         ELSE <<Head(table)>> \o DeleteWhereId(Tail(table), transaction_id)

delete_transaction(transaction_id) ==
    /\ transactions' = DeleteWhereId(transactions, transaction_id)
    /\ tx_status' = IF Len(transactions') < Len(transactions)
                    THEN "deleted" ELSE "not found"
    /\ UNCHANGED next_id

DeleteTransaction ==
    /\ \E transaction_id \in 1..MaxRows : delete_transaction(transaction_id)
    /\ UNCHANGED <<fund_prices, fifoVars, rateVars, calcVars>>

\* The store specification: an empty transactions table (init_db) and one
\* fetched fund price, then any adds and deletes
InitDb ==
    /\ transactions = <<>>
    /\ next_id = 1
    /\ fund_prices = {[date |-> MaxDate, ticker |-> "AAA", price |-> 12]}
    /\ tx_status = NULL
    /\ IdleFifo /\ IdleRates /\ IdleCalc

NextDb == AddTransaction \/ DeleteTransaction

SpecDb == InitDb /\ [][NextDb]_vars

\* ===================================================================
\* core/database.py: cpi_usd_rates; core/analysis.py: get_usd_rate
\* ===================================================================
MaxRateDate == 3
RateDates == 1..MaxRateDate

\* timedelta(days=5): the download window of fetch_usd_rate_from_yfinance
WindowDays == 5

\* INSERT INTO cpi_usd_rates without OR REPLACE and without the UNIQUE date
InsertCpiUsdRate(rows, date, rate, source) ==
    IF date \notin RateDates THEN rows
    ELSE rows \cup {[date |-> date, usd_try_rate |-> rate, source |-> source]}

\* INSERT OR REPLACE INTO cpi_usd_rates (date, usd_try_rate, source, notes):
\* date is UNIQUE, so a row of the same date is replaced. A date strptime
\* rejects (0) leaves the table alone.
add_cpi_usd_rate(rows, date, rate, source) ==
    IF date \notin RateDates THEN rows
    ELSE {r \in rows : r.date # date}
         \cup {[date |-> date, usd_try_rate |-> rate, source |-> source]}

\* WHERE date >= ? ORDER BY date ASC LIMIT 1
ClosestLater(rows, date) ==
    {r \in rows : r.date >= date /\ \A o \in rows : o.date >= date => o.date >= r.date}

\* WHERE date <= ? ORDER BY date DESC LIMIT 1
ClosestEarlier(rows, date) ==
    {r \in rows : r.date <= date /\ \A o \in rows : o.date <= date => o.date <= r.date}

get_cpi_usd_rate_for_date(rows, date, exact_match) ==
    LET result == {r \in rows : r.date = date}
        fallback == ClosestEarlier(rows, date)
    IN IF result # {} THEN <<(CHOOSE r \in result : TRUE).usd_try_rate>>
       ELSE IF exact_match THEN None
       ELSE IF fallback # {} THEN <<(CHOOSE r \in fallback : TRUE).usd_try_rate>>
       ELSE None

\* What fetch_usd_rate_from_yfinance(date_str) can return: the first Close
\* of the rows yf.download has in [date, date + 5 days), None when it has
\* none, and None whenever the download raises.
fetch_usd_rate_from_yfinance(data, date_str) ==
    LET window == {m \in data : m.date >= date_str /\ m.date < date_str + WindowDays}
        first == CHOOSE m \in window : \A o \in window : m.date <= o.date
    IN {None} \cup (IF window # {} THEN {<<first.close>>} ELSE {})

\* a get_usd_rate that downloads before it looks in the table, storing the
\* fetched rate over a rate already there
FetchFirst(rows, date_str, auto_fetch, fetched) ==
    IF auto_fetch /\ fetched # None
    THEN [ret |-> fetched,
          rows |-> add_cpi_usd_rate(rows, date_str, fetched[1], "yfinance_auto")]
    ELSE [ret |-> get_cpi_usd_rate_for_date(rows, date_str, FALSE), rows |-> rows]

\* get_usd_rate(date_str, auto_fetch) with the outcome fetched of its
\* download: the value returned and the table it leaves
get_usd_rate(rows, date_str, auto_fetch, fetched) ==
    LET db_rate == get_cpi_usd_rate_for_date(rows, date_str, auto_fetch)
    IN IF db_rate # None THEN [ret |-> db_rate, rows |-> rows]
       ELSE IF auto_fetch /\ fetched # None
       THEN [ret |-> fetched,
             rows |-> add_cpi_usd_rate(rows, date_str, fetched[1], "yfinance_auto")]
       ELSE IF ~auto_fetch
       THEN [ret |-> get_cpi_usd_rate_for_date(rows, date_str, FALSE), rows |-> rows]
       ELSE [ret |-> None, rows |-> rows]

\* the rates a user enters, and the close the market had on a date
ManualRates == {28, 29}
Close(date) == 30 + date

\* services/rates.py line 48: a rate entered by hand. The statement runs in
\* one SQLite transaction (get_connection), so calls made side by side take
\* effect one after the other. call keeps the date, in ret the rate written
\* (None for a rejected date) and in flag whether the date had a row before.
AddCpiUsdRate ==
    /\ \E date \in 0..MaxRateDate, rate \in ManualRates :
          /\ cpi_usd_rates' = add_cpi_usd_rate(cpi_usd_rates, date, rate, "manual")
          /\ call' = [op |-> "add_cpi_usd_rate", date |-> date,
                      flag |-> \E r \in cpi_usd_rates : r.date = date,
                      ret |-> IF date \in RateDates THEN <<rate>> ELSE None]
    /\ UNCHANGED <<market, dbVars, fifoVars, calcVars>>

GetCpiUsdRateForDate ==
    /\ \E date \in RateDates, exact_match \in BOOLEAN :
          call' = [op |-> "get_cpi_usd_rate_for_date", date |-> date,
                   flag |-> exact_match,
                   ret |-> get_cpi_usd_rate_for_date(cpi_usd_rates, date, exact_match)]
    /\ UNCHANGED <<cpi_usd_rates, market, dbVars, fifoVars, calcVars>>

GetUsdRate ==
    /\ \E date_str \in RateDates, auto_fetch \in BOOLEAN :
          \E fetched \in fetch_usd_rate_from_yfinance(market, date_str) :
             LET out == get_usd_rate(cpi_usd_rates, date_str, auto_fetch, fetched)
             IN /\ cpi_usd_rates' = out.rows
                /\ call' = [op |-> "get_usd_rate", date |-> date_str,
                            flag |-> auto_fetch, ret |-> out.ret]
    /\ UNCHANGED <<market, dbVars, fifoVars, calcVars>>

\* The rate specification: an empty cpi_usd_rates table and a market that
\* traded on some of the dates
InitRate ==
    /\ cpi_usd_rates = {}
    /\ \E open \in SUBSET RateDates :
          market = {[date |-> d, close |-> Close(d)] : d \in open}
    /\ call = NoCall
    /\ IdleDb /\ IdleFifo /\ IdleCalc

NextRate == AddCpiUsdRate \/ GetCpiUsdRateForDate \/ GetUsdRate

SpecRate == InitRate /\ [][NextRate]_vars

\* ===================================================================
\* core/database.py: cpi_official and calculate_cumulative_cpi_daily
\* ===================================================================
\* Months are numbered in year_month order; month k is month k of a leap
\* year. A date is [ym |-> month, day |-> day of the month].
MaxMonth == 4
Months == 1..MaxMonth

\* calendar.monthrange(year, month)[1]
get_days_in_month(ym) == <<31, 29, 31, 30, 31, 30, 31, 31, 30, 31, 30, 31>>[ym]

\* the MoM rates entered (percent), and the days of a month that are tried
MomInputs == {None, <<1>>, <<2>>}
DayInputs(ym) == {1, 15}
CpiDates == UNION {{[ym |-> ym, day |-> d] : d \in DayInputs(ym)} : ym \in Months}

\* INSERT OR REPLACE INTO cpi_official (year_month, cpi_yoy, cpi_mom, ...):
\* year_month is UNIQUE, cpi_mom may be NULL
add_cpi_official(rows, year_month, cpi_mom) ==
    {r \in rows : r.year_month # year_month}
        \cup {[year_month |-> year_month, cpi_mom |-> cpi_mom]}

\* SELECT cpi_mom FROM cpi_official WHERE year_month = ?
get_cpi_mom_for_month(rows, year_month) ==
    LET result == {r \in rows : r.year_month = year_month}
    IN IF result # {} THEN (CHOOSE r \in result : TRUE).cpi_mom ELSE None

\* SELECT ... WHERE cpi_mom IS NOT NULL ORDER BY year_month DESC LIMIT 1:
\* the row found (as a set), empty when there is none
get_latest_cpi_mom(rows) ==
    {r \in rows : r.cpi_mom # None
                  /\ \A o \in rows : o.cpi_mom # None => o.year_month <= r.year_month}

RECURSIVE RowsBetween(_, _, _)
\* SELECT year_month, cpi_mom FROM cpi_official WHERE year_month > ? AND
\* year_month < ? ORDER BY year_month: the rows the table has, from month
\* ym + 1 on
RowsBetween(rows, ym, end_ym) ==
    IF ym + 1 >= end_ym THEN <<>>
    ELSE (IF \E r \in rows : r.year_month = ym + 1
          THEN <<CHOOSE r \in rows : r.year_month = ym + 1>> ELSE <<>>)
         \o RowsBetween(rows, ym + 1, end_ym)

\* the float (1 + mom / 100) ** (days / of), kept as its three operands
Power(mom, days, of) == [mom |-> mom, days |-> days, of |-> of]

\* the factors 1 + mom / 100 of the rows of the full months (lines 706-707)
FullMonths(between) == [n \in 1..Len(between) |-> Power(between[n].cpi_mom[1], 1, 1)]

\* the end month's rate without the fallback of lines 718-721
EndMomNoFallback(rows, end_ym) == get_cpi_mom_for_month(rows, end_ym)

\* the end month's rate: its own, else that of get_latest_cpi_mom (lines
\* 715-721)
EndMom(rows, end_ym) ==
    IF get_cpi_mom_for_month(rows, end_ym) # None
    THEN get_cpi_mom_for_month(rows, end_ym)
    ELSE IF get_latest_cpi_mom(rows) # {}
    THEN (CHOOSE r \in get_latest_cpi_mom(rows) : TRUE).cpi_mom
    ELSE None

\* end_day - start_day + 1
DaysHeldInclusive(start_date, end_date) == end_date.day - start_date.day + 1

\* line 664: days_held = end_day - start_day
days_held(start_date, end_date) == end_date.day - start_date.day

\* days_in_start_month - start_day
DaysRemainingExclusive(start_date) == get_days_in_month(start_date.ym) - start_date.day

\* line 683: days_in_start_month - start_day + 1, the buy day included
days_remaining_start(start_date) == get_days_in_month(start_date.ym) - start_date.day + 1

\* calculate_cumulative_cpi_daily(start_date, end_date): None, or <<v>> with
\* v the factors whose product is cumulative, the value being
\* (cumulative - 1) * 100; the empty product is the 0.0 of line 666
calculate_cumulative_cpi_daily(rows, start_date, end_date) ==
    LET start_ym == start_date.ym
        end_ym == end_date.ym
        mom == get_cpi_mom_for_month(rows, start_ym)
        start_partial == Power(mom[1], days_remaining_start(start_date),
                               get_days_in_month(start_ym))
        between == RowsBetween(rows, start_ym, end_ym)
        days_elapsed_end == end_date.day - 1
        end_mom == EndMom(rows, end_ym)
    IN IF start_ym = end_ym
       THEN IF days_held(start_date, end_date) <= 0 THEN <<<<>>>>
            ELSE IF mom = None THEN None
            ELSE <<<<Power(mom[1], days_held(start_date, end_date),
                              get_days_in_month(start_ym))>>>>
       ELSE IF mom = None THEN None
       ELSE IF \E n \in 1..Len(between) : between[n].cpi_mom = None THEN None
       ELSE IF days_elapsed_end > 0 /\ end_mom # None
       THEN <<<<start_partial>> \o FullMonths(between)
                \o <<Power(end_mom[1], days_elapsed_end, get_days_in_month(end_ym))>>>>
       ELSE <<<<start_partial>> \o FullMonths(between)>>

\* services/rates.py: a month's CPI entered or imported
AddCpiOfficial ==
    /\ \E year_month \in Months, cpi_mom \in MomInputs :
          cpi_official' = add_cpi_official(cpi_official, year_month, cpi_mom)
    /\ cpi_call' = NoCpiCall
    /\ UNCHANGED <<rr, report, dbVars, fifoVars, rateVars>>

CalculateCumulativeCpiDaily ==
    /\ \E start_date \in CpiDates, end_date \in CpiDates :
          cpi_call' = [start_date |-> start_date, end_date |-> end_date,
                       ret |-> calculate_cumulative_cpi_daily(cpi_official,
                                                              start_date, end_date)]
    /\ UNCHANGED <<cpi_official, rr, report, dbVars, fifoVars, rateVars>>

\* The CPI specification: an empty cpi_official table (init_db), then any
\* entries and calculations
InitCpi ==
    /\ cpi_official = {}
    /\ cpi_call = NoCpiCall
    /\ rr = NoReturn /\ report = NoReport
    /\ IdleDb /\ IdleFifo /\ IdleRates

NextCpi == AddCpiOfficial \/ CalculateCumulativeCpiDaily

SpecCpi == InitCpi /\ [][NextCpi]_vars

\* ===================================================================
\* core/analysis.py: calculate_real_return
\* ===================================================================
RECURSIVE strptime(_, _)
\* datetime.strptime(date, "%Y-%m-%d"): the month and the day of the month
\* of the day number d, counted from the first day of month ym
strptime(d, ym) ==
    IF d <= get_days_in_month(ym) THEN [ym |-> ym, day |-> d]
    ELSE strptime(d - get_days_in_month(ym), ym + 1)

\* round(x * 100, 2) of the quotient x = num / den (den > 0), in hundredths
\* of a percent; a tie goes up, where the float's goes to the even digit
RoundPct(num, den) == (2 * 10000 * num + den) \div (2 * den)

\* the difference taxed as it stands, a loss included
SignedGain(current_price, buy_price) == current_price - buy_price

\* line 113: try_gain = max(0, current_price - buy_price)
try_gain(current_price, buy_price) ==
    IF current_price - buy_price > 0 THEN current_price - buy_price ELSE 0

\* line 114: tax_amount = try_gain * (tax_rate / 100)
tax_amount(current_price, buy_price, tax_rate) ==
    <<try_gain(current_price, buy_price) * tax_rate, 100>>

\* line 115: after_tax_current = current_price - tax_amount
after_tax_current(current_price, buy_price, tax_rate) ==
    <<100 * current_price - tax_amount(current_price, buy_price, tax_rate)[1], 100>>

\* line 118: nominal_return = (after_tax_current - buy_price) / buy_price
nominal_return(current_price, buy_price, tax_rate) ==
    <<after_tax_current(current_price, buy_price, tax_rate)[1] - 100 * buy_price,
      100 * buy_price>>

\* the test lacking a benchmark, whichever it is
MissingEither(result) ==
    result.real_return_usd_pct = None \/ result.real_return_cpi_pct = None

\* line 161: neither benchmark gave a real return
MissingBoth(result) ==
    result.real_return_usd_pct = None /\ result.real_return_cpi_pct = None

\* line 162
ErrorResult == [error |-> "Missing both USD and CPI data"]
\* services/analysis.py line 146: "error" in analysis
IsError(ret) == "error" \in DOMAIN ret

\* lines 120-130: the result dict before the benchmarks
BaseResult(buy_price, current_price, tax_rate) ==
    [nominal_pct |-> RoundPct(nominal_return(current_price, buy_price, tax_rate)[1],
                              nominal_return(current_price, buy_price, tax_rate)[2]),
     usd_inflation_pct |-> None,
     real_return_usd_pct |-> None,
     cpi_inflation_pct |-> None,
     real_return_cpi_pct |-> None,
     buy_usd |-> None,
     current_usd |-> None,
     tax_rate |-> tax_rate,
     tax_amount_per_share |->
         IF tax_rate > 0 THEN <<tax_amount(current_price, buy_price, tax_rate)>>
         ELSE None]

\* lines 140-147: the exchange-rate figures, from the after-tax price (in
\* hundredths) and the two rates
WithUsd(result, after, buy_price, buy_usd, current_usd) ==
    IF buy_usd # None /\ current_usd # None
    THEN [result EXCEPT
            !.usd_inflation_pct = <<RoundPct(current_usd[1] - buy_usd[1], buy_usd[1])>>,
            !.real_return_usd_pct =
                <<RoundPct(after * buy_usd[1] - 100 * buy_price * current_usd[1],
                           100 * buy_price * current_usd[1])>>,
            !.buy_usd = buy_usd,
            !.current_usd = current_usd]
    ELSE result

\* lines 153-158: the CPI figures; the real return against the CPI is kept
\* as its operands, the nominal return and the factors of the CPI
WithCpi(result, nominal, cpi_change) ==
    IF cpi_change # None
    THEN [result EXCEPT
            !.cpi_inflation_pct = cpi_change,
            !.real_return_cpi_pct =
                <<[nominal_return |-> nominal, cumulative |-> cpi_change[1]]>>]
    ELSE result

\* lines 160-164
ErrorOrResult(result) == IF MissingBoth(result) THEN ErrorResult ELSE result

\* lines 136-164, the rates and the CPI change looked up
Benchmarked(buy_price, current_price, tax_rate, buy_usd, current_usd, cpi_change) ==
    ErrorOrResult(
        WithCpi(WithUsd(BaseResult(buy_price, current_price, tax_rate),
                        after_tax_current(current_price, buy_price, tax_rate)[1],
                        buy_price, buy_usd, current_usd),
                nominal_return(current_price, buy_price, tax_rate), cpi_change))

\* the second lookup of line 138, on the table the first one left
SecondRate(buy, current_date, auto_fetch_usd, fetched_current) ==
    [buy |-> buy.ret,
     current |-> get_usd_rate(buy.rows, current_date, auto_fetch_usd, fetched_current)]

\* the value returned and the table left, the two rates looked up
Returned(buy_price, current_price, tax_rate, usd, cpi_change) ==
    [ret |-> Benchmarked(buy_price, current_price, tax_rate, usd.buy, usd.current.ret,
                         cpi_change),
     rows |-> usd.current.rows]

\* calculate_real_return on the tables rows (cpi_usd_rates) and cpi_rows
\* (cpi_official), current_date being datetime.now() and fetched_buy,
\* fetched_current the outcomes of the two downloads: ret is the value
\* returned (raised for the ZeroDivisionError of line 118), rows the
\* cpi_usd_rates table the call leaves.
calculate_real_return(rows, cpi_rows, buy_price, current_price, buy_date, current_date, auto_fetch_usd, tax_rate, skip_usd_cpi, fetched_buy, fetched_current) ==
    IF buy_price = 0 THEN [ret |-> [raised |-> "ZeroDivisionError"], rows |-> rows]
    ELSE IF skip_usd_cpi
    THEN [ret |-> BaseResult(buy_price, current_price, tax_rate), rows |-> rows]
    ELSE Returned(buy_price, current_price, tax_rate,
                  SecondRate(get_usd_rate(rows, buy_date, auto_fetch_usd, fetched_buy),
                             current_date, auto_fetch_usd, fetched_current),
                  calculate_cumulative_cpi_daily(cpi_rows, strptime(buy_date, 1),
                                                 strptime(current_date, 1)))

\* the arguments tried: a positive buy price (services/portfolio.py line 66),
\* a current price below, at and above it, and the tax rates 0, 10 and 100
BuyPriceArgs == {10}
CurrentPriceArgs == {8, 10, 12}
TaxRateArgs == {0, 10, 100}

\* what the download of get_usd_rate(date_str, auto_fetch) can give: it is
\* made with auto_fetch only
Fetched(data, date_str, auto_fetch) ==
    IF auto_fetch THEN fetch_usd_rate_from_yfinance(data, date_str) ELSE {None}

\* one call of calculate_real_return, the first on the tables of the
\* initial state; rr keeps the arguments, the table the call found, the
\* locals of lines 114-115 and the value returned
CalculateRealReturn ==
    /\ rr = NoReturn
    /\ \E buy_price \in BuyPriceArgs, current_price \in CurrentPriceArgs,
          buy_date \in RateDates, current_date \in RateDates,
          auto_fetch_usd \in BOOLEAN, tax_rate \in TaxRateArgs,
          skip_usd_cpi \in BOOLEAN :
          \E fetched_buy \in Fetched(market, buy_date, auto_fetch_usd /\ ~skip_usd_cpi),
             fetched_current \in Fetched(market, current_date, auto_fetch_usd /\ ~skip_usd_cpi) :
             LET out == calculate_real_return(cpi_usd_rates, cpi_official, buy_price,
                            current_price, buy_date, current_date, auto_fetch_usd,
                            tax_rate, skip_usd_cpi, fetched_buy, fetched_current)
             IN /\ cpi_usd_rates' = out.rows
                /\ rr' = [op |-> "calculate_real_return",
                          buy_price |-> buy_price, current_price |-> current_price,
                          buy_date |-> buy_date, current_date |-> current_date,
                          auto_fetch_usd |-> auto_fetch_usd, tax_rate |-> tax_rate,
                          skip_usd_cpi |-> skip_usd_cpi,
                          fetched_buy |-> fetched_buy,
                          fetched_current |-> fetched_current,
                          rows |-> cpi_usd_rates,
                          tax_amount |-> tax_amount(current_price, buy_price, tax_rate),
                          after_tax_current |->
                              after_tax_current(current_price, buy_price, tax_rate),
                          ret |-> out.ret]
    /\ UNCHANGED <<market, call, cpi_official, cpi_call, report, dbVars, fifoVars>>

\* The real-return specification: rates stored for some of the dates, a
\* market that traded on some of the dates, and the first month's CPI row
\* absent, without a MoM rate or with one
InitReturn ==
    /\ \E stored \in SUBSET RateDates :
          cpi_usd_rates = {[date |-> d, usd_try_rate |-> 28, source |-> "manual"] :
                             d \in stored}
    /\ \E open \in SUBSET RateDates :
          market = {[date |-> d, close |-> Close(d)] : d \in open}
    /\ \E entered \in SUBSET MomInputs :
          /\ Cardinality(entered) <= 1
          /\ cpi_official = {[year_month |-> 1, cpi_mom |-> m] : m \in entered}
    /\ call = NoCall /\ cpi_call = NoCpiCall
    /\ rr = NoReturn /\ report = NoReport
    /\ IdleDb /\ IdleFifo

NextReturn == CalculateRealReturn

SpecReturn == InitReturn /\ [][NextReturn]_vars

\* ===================================================================
\* services/analysis.py: AnalysisService.analyze_portfolio
\* core/analysis.py: calculate_portfolio_summary
\* ===================================================================
\* The downloads of one call: with the service reachable each gives the
\* first close of its window, otherwise (and for a window without a close)
\* None.
Download(data, date_str, online) ==
    LET got == fetch_usd_rate_from_yfinance(data, date_str) \ {None}
    IN IF online /\ got # {} THEN CHOOSE f \in got : TRUE ELSE None

\* lines 50-59 and 72: price_map.get(ticker, 0), price_map holding the rows
\* of the price table with a positive price
price_map(price_table, t) ==
    LET rows == {r \in price_table : r.Ticker = t /\ r.Current_Price > 0}
    IN IF rows # {} THEN (CHOOSE r \in rows : TRUE).Current_Price ELSE 0

\* the cells of the detail and summary tables: "N/A", the dash, a number
\* formatted as a percentage
NA == [text |-> "N/A"]
Dash == [text |-> "-"]
Pct(v) == [text |-> "%", val |-> v]

\* _format_real_return, lines 386-396
format_real_return(val) == IF val = None THEN Dash ELSE Pct(val[1])

\* lines 108-114: the analysis of a cash lot
CashAnalysis ==
    [nominal_pct |-> 0, usd_inflation_pct |-> None, real_return_usd_pct |-> None,
     cpi_inflation_pct |-> None, real_return_cpi_pct |-> None]

\* lines 96-103: the prices used for a lot and the capital invested in it
LotPrices(fifo_result, lot, current_price) ==
    IF fifo_result.asset_type = ASSET_CASH
    THEN [buy_price |-> 1, lot_current_price |-> 1,
          invested |-> lot.remaining_quantity]
    ELSE [buy_price |-> lot.buy_price,
          lot_current_price |-> IF current_price > 0 THEN current_price
                                ELSE lot.buy_price,
          invested |-> lot.buy_price * lot.remaining_quantity]

\* lines 117-122: the nominal return in the lot's own currency
NominalPct(prices, tax_rate) ==
    RoundPct(nominal_return(prices.lot_current_price, prices.buy_price, tax_rate)[1],
             nominal_return(prices.lot_current_price, prices.buy_price, tax_rate)[2])

\* lines 129-138: a USD lot with both rates, converted to TRY and analysed
\* without tax and without benchmarks, the nominal return being that of the
\* USD prices
Converted(cpi_rows, lot, prices, usd, today, auto_fetch) ==
    [raised |-> FALSE, rows |-> usd.current.rows,
     analysis |-> [calculate_real_return(usd.current.rows, cpi_rows,
                       prices.buy_price * usd.buy[1],
                       prices.lot_current_price * usd.current.ret[1],
                       lot.buy_date, today, auto_fetch, 0, TRUE, None, None).ret
                   EXCEPT !.nominal_pct = NominalPct(prices, lot.tax_rate)],
     lot |-> prices]

\* lines 139-141: the standard calculation, on the table rows
Standard(rows, cpi_rows, lot, prices, today, auto_fetch, fetched_buy, fetched_current) ==
    [raised |-> FALSE,
     rows |-> calculate_real_return(rows, cpi_rows, prices.buy_price,
                  prices.lot_current_price, lot.buy_date, today, auto_fetch,
                  lot.tax_rate, FALSE, fetched_buy, fetched_current).rows,
     analysis |-> calculate_real_return(rows, cpi_rows, prices.buy_price,
                      prices.lot_current_price, lot.buy_date, today, auto_fetch,
                      lot.tax_rate, FALSE, fetched_buy, fetched_current).ret,
     lot |-> prices]

\* lines 126-141 for a USD lot, the two rates of lines 126-127 looked up
UsdLot(cpi_rows, lot, prices, usd, today, auto_fetch, fetched_buy, fetched_current) ==
    IF usd.buy # None /\ usd.current.ret # None
    THEN Converted(cpi_rows, lot, prices, usd, today, auto_fetch)
    ELSE Standard(usd.current.rows, cpi_rows, lot, prices, today, auto_fetch,
                  fetched_buy, fetched_current)

\* lines 107-141 for one open lot, its prices chosen and the outcomes of
\* the downloads given: the analysis dict, the cpi_usd_rates table left, and
\* raised for the ZeroDivisionError of line 121
LotAnalysis(rows, cpi_rows, fifo_result, lot, prices, today, auto_fetch, fetched_buy, fetched_current) ==
    IF fifo_result.asset_type = ASSET_CASH
    THEN [raised |-> FALSE, rows |-> rows, analysis |-> CashAnalysis, lot |-> prices]
    ELSE IF prices.buy_price = 0
    THEN [raised |-> TRUE, rows |-> rows, analysis |-> CashAnalysis, lot |-> prices]
    ELSE IF fifo_result.currency = CURRENCY_USD
    THEN UsdLot(cpi_rows, lot, prices,
                SecondRate(get_usd_rate(rows, lot.buy_date, auto_fetch, fetched_buy),
                           today, auto_fetch, fetched_current),
                today, auto_fetch, fetched_buy, fetched_current)
    ELSE Standard(rows, cpi_rows, lot, prices, today, auto_fetch, fetched_buy,
                  fetched_current)

\* lines 90-141 for one open lot
AnalyzeLot(rows, data, cpi_rows, fifo_result, lot, current_price, today, auto_fetch, online) ==
    LotAnalysis(rows, cpi_rows, fifo_result, lot,
                LotPrices(fifo_result, lot, current_price), today, auto_fetch,
                Download(data, lot.buy_date, online /\ auto_fetch),
                Download(data, today, online /\ auto_fetch))

\* lines 146-196: the row of the detail table for an open lot
OpenRow(t, lot, a) ==
    IF IsError(a.analysis)
    THEN [Type |-> "OPEN", Date |-> lot.buy_date, Ticker |-> t,
          Qty |-> lot.remaining_quantity, Buy |-> a.lot.buy_price,
          Now |-> a.lot.lot_current_price, Tax |-> lot.tax_rate,
          Nominal |-> Dash, USD |-> Dash, CPI |-> Dash, vs_USD |-> NA, vs_CPI |-> NA]
    ELSE [Type |-> "OPEN", Date |-> lot.buy_date, Ticker |-> t,
          Qty |-> lot.remaining_quantity, Buy |-> a.lot.buy_price,
          Now |-> a.lot.lot_current_price, Tax |-> lot.tax_rate,
          Nominal |-> Pct(a.analysis.nominal_pct),
          USD |-> format_real_return(a.analysis.usd_inflation_pct),
          CPI |-> format_real_return(a.analysis.cpi_inflation_pct),
          vs_USD |-> format_real_return(a.analysis.real_return_usd_pct),
          vs_CPI |-> format_real_return(a.analysis.real_return_cpi_pct)]

\* lines 199-219: the row of the detail table for a closed lot
SoldRow(t, lot) ==
    [Type |-> "SOLD", Date |-> <<lot.buy_date, lot.sell_date>>, Ticker |-> t,
     Qty |-> lot.quantity, Buy |-> lot.buy_price, Now |-> lot.sell_price,
     Tax |-> lot.tax_rate, Nominal |-> Pct(lot.realized_gain_pct),
     USD |-> Pct(lot.holding_days), CPI |-> Dash,
     vs_USD |-> Pct(lot.realized_gain), vs_CPI |-> Dash]

\* the entry of a weighted list whose benchmark the analysis has, if any
Weighted(a, field) ==
    IF ~IsError(a.analysis) /\ a.analysis[field] # None
    THEN <<[invested |-> a.lot.invested, real |-> a.analysis[field][1]]>>
    ELSE <<>>

\* lines 143-196: what the analysis a of a lot adds to the results, the
\* errors and the weighted lists; a ZeroDivisionError ends the call at the lot
AfterLot(acc, t, lot, a) ==
    IF a.raised
    THEN [acc EXCEPT !.raised = TRUE,
                     !.at = <<[ticker |-> t, buy_date |-> lot.buy_date]>>]
    ELSE [acc EXCEPT
            !.rows = a.rows,
            !.results = Append(acc.results, OpenRow(t, lot, a)),
            !.errors = IF IsError(a.analysis)
                       THEN Append(acc.errors, LotError(t, lot))
                       ELSE acc.errors,
            !.weighted_real_usd =
                acc.weighted_real_usd \o Weighted(a, "real_return_usd_pct"),
            !.weighted_real_cpi =
                acc.weighted_real_cpi \o Weighted(a, "real_return_cpi_pct")]

RECURSIVE AnalyzeLots(_, _, _, _, _, _, _, _, _, _)
\* the loop of line 89 over the open lots from index i on; acc carries the
\* results, errors and weighted lists so far, the table, and the lot a
\* ZeroDivisionError was raised at
AnalyzeLots(acc, data, cpi_rows, fifo_result, i, current_price, today, auto_fetch, online, t) ==
    IF acc.raised \/ i > Len(fifo_result.open_lots) THEN acc
    ELSE AnalyzeLots(
            AfterLot(acc, t, fifo_result.open_lots[i],
                     AnalyzeLot(acc.rows, data, cpi_rows, fifo_result,
                                fifo_result.open_lots[i], current_price, today,
                                auto_fetch, online)),
            data, cpi_rows, fifo_result, i + 1, current_price, today, auto_fetch,
            online, t)

\* lines 285-296: sum(w * r) / sum(w) over a weighted list, None for an
\* empty list or a total weight of 0; kept as the list and the divisor
WeightedAverage(weighted) ==
    IF weighted # <<>> /\ SumSeq(weighted, "invested") > 0
    THEN <<[terms |-> weighted, weight |-> SumSeq(weighted, "invested")]>>
    ELSE None

RECURSIVE SoldRows(_, _, _)
SoldRows(t, closed_lots, i) ==
    IF i > Len(closed_lots) THEN <<>>
    ELSE <<SoldRow(t, closed_lots[i])>> \o SoldRows(t, closed_lots, i + 1)

RECURSIVE unique(_, _)
\* df["ticker"].unique(): the tickers of the frame in order of appearance
unique(frame, seen) ==
    IF frame = <<>> THEN <<>>
    ELSE IF Head(frame).ticker \in seen THEN unique(Tail(frame), seen)
    ELSE <<Head(frame).ticker>> \o unique(Tail(frame), seen \cup {Head(frame).ticker})

\* calculate_fifo_all_tickers (fifo.py lines 219-229) on a frame: every
\* dict of FIFOResults it can return
calculate_fifo_all_tickers(frame) ==
    LET tickers == UniqueTickers(frame)
        all == UNION {calculate_fifo_for_ticker(frame, t) : t \in tickers}
    IN {f \in [tickers -> all] : \A t \in tickers : f[t] \in calculate_fifo_for_ticker(frame, t)}

NoLot == <<>>

\* lines 74-86: a ticker's weighted lists start empty
BeforeTicker(acc) == [acc EXCEPT !.weighted_real_usd = <<>>, !.weighted_real_cpi = <<>>]

\* lines 199-313: the ticker's closed lots and its summary row, lots being
\* the state after its open lots
AfterTicker(lots, t, fifo_result, current_price) ==
    IF lots.raised THEN lots
    ELSE [lots EXCEPT
            !.results = lots.results \o SoldRows(t, fifo_result.closed_lots, 1),
            !.summary =
                Append(lots.summary,
                       [Ticker |-> t,
                        Currency |-> fifo_result.currency,
                        Shares |-> fifo_result.total_shares_held,
                        Cost_Basis |-> fifo_result.total_cost_basis,
                        Price |-> current_price,
                        Value |-> IF current_price > 0
                                  THEN fifo_result.total_shares_held * current_price
                                  ELSE 0,
                        Realized |-> fifo_result.total_realized_gain,
                        Real_USD |-> WeightedAverage(lots.weighted_real_usd),
                        Real_CPI |-> WeightedAverage(lots.weighted_real_cpi)])]

RECURSIVE AnalyzeTickers(_, _, _, _, _, _, _, _, _, _)
\* the loop of line 67 over the tickers from index k of order on
AnalyzeTickers(acc, data, cpi_rows, fifo_results, order, k, price_table, today, auto_fetch, online) ==
    IF acc.raised \/ k > Len(order) THEN acc
    ELSE AnalyzeTickers(
            AfterTicker(
                AnalyzeLots(BeforeTicker(acc), data, cpi_rows, fifo_results[order[k]], 1,
                            price_map(price_table, order[k]), today, auto_fetch, online,
                            order[k]),
                order[k], fifo_results[order[k]], price_map(price_table, order[k])),
            data, cpi_rows, fifo_results, order, k + 1, price_table, today, auto_fetch,
            online)

\* line 62-64: nothing analysed yet
BeforeTickers(rows) ==
    [raised |-> FALSE, at |-> NoLot, rows |-> rows, results |-> <<>>,
     errors |-> <<>>, summary |-> <<>>,
     weighted_real_usd |-> <<>>, weighted_real_cpi |-> <<>>]

\* lines 244-271: what a ticker's figure adds to the TRY total, a USD
\* ticker's through today's rate, or 0 without one
InTry(row, field, today_usd) ==
    IF row.Currency = CURRENCY_USD
    THEN (IF today_usd # None THEN row[field] * today_usd[1] ELSE 0)
    ELSE row[field]

\* lines 244-271: what a ticker's figure adds to the USD total, as a
\* numerator over today's rate (over 1 without one): a TRY ticker's figure
\* divided by the rate, or 0 without one
InUsd(row, field, today_usd) ==
    IF row.Currency = CURRENCY_USD
    THEN (IF today_usd # None THEN row[field] * today_usd[1] ELSE row[field])
    ELSE (IF today_usd # None THEN row[field] ELSE 0)

RECURSIVE GrandTry(_, _, _)
\* lines 227-229 and 274-276: a grand total in TRY over the summary rows
GrandTry(summary, field, today_usd) ==
    IF summary = <<>> THEN 0
    ELSE InTry(Head(summary), field, today_usd) + GrandTry(Tail(summary), field, today_usd)

RECURSIVE GrandUsd(_, _, _)
\* lines 230-232 and 277-279: the numerator of a grand total in USD
GrandUsd(summary, field, today_usd) ==
    IF summary = <<>> THEN 0
    ELSE InUsd(Head(summary), field, today_usd) + GrandUsd(Tail(summary), field, today_usd)

\* lines 322-338: the TRY total row
TotalTry(summary, today_usd) ==
    [Ticker |-> "TOTAL TRY",
     Cost_Basis |-> GrandTry(summary, "Cost_Basis", today_usd),
     Value |-> GrandTry(summary, "Value", today_usd),
     Realized |-> GrandTry(summary, "Realized", today_usd)]

\* lines 341-361: the USD total row, its figures over today's rate
TotalUsd(summary, today_usd) ==
    [Ticker |-> "TOTAL USD",
     Cost_Basis |-> <<GrandUsd(summary, "Cost_Basis", today_usd), today_usd[1]>>,
     Value |-> <<GrandUsd(summary, "Value", today_usd), today_usd[1]>>,
     Realized |-> <<GrandUsd(summary, "Realized", today_usd), today_usd[1]>>]

\* lines 316-361: the total rows appended to the summary rows
TotalRows(summary, today_usd) ==
    IF summary = <<>> THEN <<>>
    ELSE <<TotalTry(summary, today_usd)>>
         \o (IF today_usd # None THEN <<TotalUsd(summary, today_usd)>> ELSE <<>>)

\* lines 222-383: today's rate and the outputs, done being the state after
\* the tickers
Outputs(done, today_usd) ==
    IF done.raised
    THEN [raised |-> TRUE, at |-> done.at, rows |-> done.rows, results |-> <<>>,
          summary |-> <<>>, totals |-> <<>>, errors |-> <<>>, today_usd |-> None]
    ELSE [raised |-> FALSE, at |-> NoLot, rows |-> today_usd.rows,
          results |-> done.results, summary |-> done.summary,
          totals |-> TotalRows(done.summary, today_usd.ret),
          errors |-> done.errors, today_usd |-> today_usd.ret]

\* line 222, on the table the tickers left
TodayUsd(done, data, today, auto_fetch, online) ==
    Outputs(done, get_usd_rate(done.rows, today, auto_fetch,
                               Download(data, today, online /\ auto_fetch)))

\* analyze_portfolio(price_table_df, auto_fetch) for the dict fifo_results
\* calculate_fifo_all_tickers returned on the frame: what it returns (the
\* detail table, the summary rows of the tickers with their averages, and of
\* the status text today's rate and the errors) or that it raised, and the
\* cpi_usd_rates table it leaves. The summary rows stand in the order the
\* tickers were analysed in (line 234 sorts them), the total rows apart.
analyze_portfolio(rows, data, cpi_rows, frame, fifo_results, price_table, today, auto_fetch, online) ==
    IF frame = <<>>
    THEN [raised |-> FALSE, at |-> NoLot, rows |-> rows, results |-> <<>>,
          summary |-> <<>>, totals |-> <<>>, errors |-> <<>>, today_usd |-> None]
    ELSE TodayUsd(AnalyzeTickers(BeforeTickers(rows), data, cpi_rows, fifo_results,
                                 unique(frame, {}), 1, price_table, today, auto_fetch,
                                 online),
                  data, today, auto_fetch, online)

\* ---------------------------------------------------------------
\* core/analysis.py: calculate_portfolio_summary
\* ---------------------------------------------------------------
\* lines 201-210: weighted_sum / total_invested, 0.0 for an empty list or
\* nothing invested; kept as the list and the divisor (the 0.0 as the empty
\* list over 1)
SummaryAverage(weighted, total_invested) ==
    IF weighted # <<>> /\ total_invested > 0
    THEN [terms |-> weighted, weight |-> total_invested]
    ELSE [terms |-> <<>>, weight |-> 1]

\* lines 184-199: what a position and its real returns add
AfterPosition(acc, pos, out) ==
    IF "raised" \in DOMAIN out.ret THEN [acc EXCEPT !.raised = TRUE]
    ELSE [acc EXCEPT
            !.rows = out.rows,
            !.total_invested = acc.total_invested + pos.buy_price * pos.quantity,
            !.current_value = acc.current_value + pos.current_price * pos.quantity,
            !.weighted_real_usd =
                acc.weighted_real_usd
                \o Weighted([analysis |-> out.ret,
                             lot |-> [invested |-> pos.buy_price * pos.quantity]],
                            "real_return_usd_pct"),
            !.weighted_real_cpi =
                acc.weighted_real_cpi
                \o Weighted([analysis |-> out.ret,
                             lot |-> [invested |-> pos.buy_price * pos.quantity]],
                            "real_return_cpi_pct")]

RECURSIVE SummaryLoop(_, _, _, _, _, _, _, _)
\* the loop of line 183 over the positions from index i on
SummaryLoop(acc, data, cpi_rows, positions, i, today, auto_fetch_usd, online) ==
    IF acc.raised \/ i > Len(positions) THEN acc
    ELSE SummaryLoop(
            AfterPosition(acc, positions[i],
                calculate_real_return(acc.rows, cpi_rows, positions[i].buy_price,
                    positions[i].current_price, positions[i].buy_date, today,
                    auto_fetch_usd, positions[i].tax_rate, FALSE,
                    Download(data, positions[i].buy_date, online /\ auto_fetch_usd),
                    Download(data, today, online /\ auto_fetch_usd))),
            data, cpi_rows, positions, i + 1, today, auto_fetch_usd, online)

\* lines 201-220: the dict returned, done being the state after the loop
Summary(done) ==
    [raised |-> done.raised, rows |-> done.rows,
     total_invested |-> done.total_invested,
     current_value |-> done.current_value,
     nominal_gain_pct |-> IF done.total_invested > 0
                          THEN <<done.current_value - done.total_invested,
                                 done.total_invested>>
                          ELSE <<0, 1>>,
     avg_real_gain_usd_pct |->
         SummaryAverage(done.weighted_real_usd, done.total_invested),
     avg_real_gain_cpi_pct |->
         SummaryAverage(done.weighted_real_cpi, done.total_invested)]

\* calculate_portfolio_summary(positions, auto_fetch_usd): the dict returned
\* (or raised) and the cpi_usd_rates table left
calculate_portfolio_summary(rows, data, cpi_rows, positions, today, auto_fetch_usd, online) ==
    Summary(SummaryLoop([raised |-> FALSE, rows |-> rows, total_invested |-> 0,
                         current_value |-> 0, weighted_real_usd |-> <<>>,
                         weighted_real_cpi |-> <<>>],
                        data, cpi_rows, positions, 1, today, auto_fetch_usd, online))

\* ---------------------------------------------------------------
\* The analysis specification
\* ---------------------------------------------------------------
\* the longest log analysed
MaxLogRows == 2

\* The rows its logs are drawn from: TEFAS buys with a price entered and with
\* the price left to fund_prices, a sell, a USD stock and a cash deposit
AnalysisRows ==
    {[ticker |-> "AAA", transaction_type |-> TX_BUY, date |-> d, quantity |-> 100,
      price_per_share |-> <<10>>, tax_rate |-> 10, asset_type |-> ASSET_TEFAS,
      currency |-> CURRENCY_TRY] : d \in Dates}
    \cup {[ticker |-> "AAA", transaction_type |-> TX_BUY, date |-> 1, quantity |-> 50,
           price_per_share |-> None, tax_rate |-> 0, asset_type |-> ASSET_TEFAS,
           currency |-> CURRENCY_TRY],
          [ticker |-> "AAA", transaction_type |-> TX_SELL, date |-> MaxDate,
           quantity |-> 50, price_per_share |-> <<12>>, tax_rate |-> 0,
           asset_type |-> ASSET_TEFAS, currency |-> CURRENCY_TRY],
          [ticker |-> "BBB", transaction_type |-> TX_BUY, date |-> 1, quantity |-> 50,
           price_per_share |-> <<15>>, tax_rate |-> 10, asset_type |-> ASSET_USD_STOCK,
           currency |-> CURRENCY_USD],
          [ticker |-> "CASH_TRY", transaction_type |-> TX_BUY, date |-> 1,
           quantity |-> 50, price_per_share |-> <<1>>, tax_rate |-> 0,
           asset_type |-> ASSET_CASH, currency |-> CURRENCY_TRY]}

\* the fund_prices tables: empty, or the fund's price of the first day, which
\* add_fund_price stores as it comes (database.py lines 771-775), 0.0 included
FundPriceTables ==
    {{}} \cup {{[date |-> 1, ticker |-> "AAA", price |-> p]} : p \in {0, 12}}

\* the price tables handed in: empty, or one row, its price 0 or above
PriceTables ==
    {{}} \cup {{[Ticker |-> "AAA", Current_Price |-> p]} : p \in {0, 12}}
         \cup {{[Ticker |-> "BBB", Current_Price |-> 20]}}

\* the positions handed to calculate_portfolio_summary
PositionKinds ==
    {[quantity |-> q, buy_price |-> 10, current_price |-> 12, buy_date |-> d,
      tax_rate |-> 10] : q \in {50, 100}, d \in Dates}
PositionLists ==
    {<<p>> : p \in PositionKinds} \cup {<<p, q>> : p \in PositionKinds, q \in PositionKinds}

\* datetime.now(): the last day
Todays == {MaxRateDate}

\* one call of analyze_portfolio; report keeps the arguments and what the
\* call returned
AnalyzePortfolio ==
    /\ report = NoReport
    /\ \E frame \in get_portfolio(transactions, fund_prices) :
          \E fifo_results \in calculate_fifo_all_tickers(frame) :
             \E price_table \in PriceTables, today \in Todays, auto_fetch \in BOOLEAN :
                \E online \in IF auto_fetch THEN BOOLEAN ELSE {FALSE} :
                   LET out == analyze_portfolio(cpi_usd_rates, market, cpi_official,
                                  frame, fifo_results, price_table, today, auto_fetch,
                                  online)
                   IN /\ cpi_usd_rates' = out.rows
                      /\ report' = [op |-> "analyze_portfolio",
                                    price_table |-> price_table,
                                    fifo_results |-> fifo_results,
                                    today |-> today, auto_fetch |-> auto_fetch,
                                    online |-> online, rows |-> cpi_usd_rates,
                                    raised |-> out.raised, at |-> out.at,
                                    results |-> out.results, summary |-> out.summary,
                                    totals |-> out.totals,
                                    errors |-> out.errors, today_usd |-> out.today_usd]
    /\ UNCHANGED <<market, call, cpi_official, cpi_call, rr, dbVars, fifoVars>>

\* one call of calculate_portfolio_summary, which reads the rates and the
\* CPI but not the log (taken empty)
CalculatePortfolioSummary ==
    /\ report = NoReport /\ transactions = <<>> /\ fund_prices = {}
    /\ \E positions \in PositionLists, today \in Todays, auto_fetch_usd \in BOOLEAN :
          \E online \in IF auto_fetch_usd THEN BOOLEAN ELSE {FALSE} :
             LET out == calculate_portfolio_summary(cpi_usd_rates, market, cpi_official,
                            positions, today, auto_fetch_usd, online)
             IN /\ cpi_usd_rates' = out.rows
                /\ report' = [op |-> "calculate_portfolio_summary",
                              positions |-> positions, raised |-> out.raised,
                              total_invested |-> out.total_invested,
                              current_value |-> out.current_value,
                              nominal_gain_pct |-> out.nominal_gain_pct,
                              avg_real_gain_usd_pct |-> out.avg_real_gain_usd_pct,
                              avg_real_gain_cpi_pct |-> out.avg_real_gain_cpi_pct]
    /\ UNCHANGED <<market, call, cpi_official, cpi_call, rr, dbVars, fifoVars>>

\* The analysis specification: a log of up to MaxLogRows rows, each row without
\* a price of its own having one in fund_prices (add_transaction, database.py
\* lines 224-228), rates entered for some of the log's dates, a market closed or
\* trading every day, and the first month's CPI rate entered or not
InitAnalysis ==
    /\ \E n \in 0..MaxLogRows :
          \E s \in [1..n -> AnalysisRows] :
             transactions = [i \in 1..n |-> WithId(s[i], i)]
    /\ next_id = Len(transactions) + 1
    /\ fund_prices \in FundPriceTables
    /\ \A n \in 1..Len(transactions) :
          transactions[n].price_per_share = None
             => get_fund_price_for_date(fund_prices, transactions[n].ticker,
                                        transactions[n].date, FALSE) # None
    /\ tx_status = NULL
    /\ \E stored \in SUBSET Dates :
          cpi_usd_rates = {[date |-> d, usd_try_rate |-> 28, source |-> "manual"] :
                             d \in stored}
    /\ \E open \in {{}, RateDates} :
          market = {[date |-> d, close |-> Close(d)] : d \in open}
    /\ \E entered \in {{}, {<<1>>}} :
          cpi_official = {[year_month |-> 1, cpi_mom |-> m] : m \in entered}
    /\ call = NoCall /\ cpi_call = NoCpiCall
    /\ rr = NoReturn /\ report = NoReport
    /\ IdleFifo

NextAnalysis == AnalyzePortfolio \/ CalculatePortfolioSummary

SpecAnalysis == InitAnalysis /\ [][NextAnalysis]_vars

\* ---------------------------------------------------------------
\* The frame specification: analyze_portfolio alone, over logs of buys of a
\* TRY fund on any date and of a USD stock, all with their price entered, and
\* the first month's CPI rate
\* ---------------------------------------------------------------
FrameRows ==
    {r \in AnalysisRows : r.transaction_type = TX_BUY /\ r.price_per_share # None
                          /\ r.asset_type # ASSET_CASH}

InitFrame ==
    /\ \E n \in 0..MaxLogRows :
          \E s \in [1..n -> FrameRows] :
             transactions = [i \in 1..n |-> WithId(s[i], i)]
    /\ next_id = Len(transactions) + 1
    /\ fund_prices = {}
    /\ tx_status = NULL
    /\ \E stored \in SUBSET Dates :
          cpi_usd_rates = {[date |-> d, usd_try_rate |-> 28, source |-> "manual"] :
                             d \in stored}
    /\ \E open \in {{}, RateDates} :
          market = {[date |-> d, close |-> Close(d)] : d \in open}
    /\ cpi_official = {[year_month |-> 1, cpi_mom |-> <<1>>]}
    /\ call = NoCall /\ cpi_call = NoCpiCall
    /\ rr = NoReturn /\ report = NoReport
    /\ IdleFifo

NextFrame == AnalyzePortfolio

SpecFrame == InitFrame /\ [][NextFrame]_vars

\* ===================================================================
\* core/database.py: bulk_import_cpi_usd_rates, bulk_import_cpi_official
\* ===================================================================
\* A line of the CSV text is the sequence of its comma-separated parts, the
\* empty line the empty sequence; a part is a text of one of these kinds: a
\* number, a YYYY-MM-DD date, a YYYY-MM or MM-YYYY month (val 0: a text of
\* that shape naming no month, such as 2024-13), the empty text, anything else
Junk == [text |-> "junk"]
Blank == [text |-> ""]
Num(v) == [text |-> "number", val |-> v]
DateText(d) == [text |-> "date", val |-> d]
YmText(m) == [text |-> "ym", val |-> m]
MyText(m) == [text |-> "my", val |-> m]

\* float(text): the number, or None for the ValueError
float(part) == IF part.text = "number" THEN <<part.val>> ELSE None

\* datetime.strptime(date, "%Y-%m-%d") of add_cpi_usd_rate, line 391: the
\* date, or 0 for the ValueError that line 400 turns into an error message
strptime_date(part) == IF part.text = "date" THEN part.val ELSE 0

\* lines 470-485: one line of bulk_import_cpi_usd_rates
ImportRateLine(acc, line) ==
    IF Len(line) < 2 THEN acc
    ELSE IF float(line[2]) = None
    THEN [acc EXCEPT !.errors = Append(@, [part |-> line[1], error |-> "Invalid rate value"])]
    ELSE IF strptime_date(line[1]) \in RateDates
    THEN [acc EXCEPT
            !.rows = add_cpi_usd_rate(@, strptime_date(line[1]), float(line[2])[1],
                                      "bulk_import"),
            !.imported = @ + 1]
    ELSE [acc EXCEPT !.errors = Append(@, [part |-> line[1], error |-> "Date must be in YYYY-MM-DD format"])]

RECURSIVE ImportRateLines(_, _, _)
\* line 470: the loop over the lines from index i on
ImportRateLines(acc, lines, i) ==
    IF i > Len(lines) THEN acc
    ELSE ImportRateLines(ImportRateLine(acc, lines[i]), lines, i + 1)

\* line 466: the lines that are not empty
NonEmpty(lines) == SelectSeq(lines, LAMBDA line : line # <<>>)

\* bulk_import_cpi_usd_rates(csv_text): the table left, the count of imported
\* lines and the error list
bulk_import_cpi_usd_rates(rows, lines) ==
    ImportRateLines([rows |-> rows, imported |-> 0, errors |-> <<>>], NonEmpty(lines), 1)

\* lines 565-569: MM-YYYY turned into YYYY-MM
ToYearMonth(part) == IF part.text = "my" THEN YmText(part.val) ELSE part

\* lines 563 and 572: whether there is a third part that is not empty
HasMom(line) == Len(line) >= 3 /\ line[3].text # ""

\* line 572: mom_val, None without a third part
mom_val(line) == IF HasMom(line) THEN float(line[3]) ELSE None

\* lines 555-579: one line of bulk_import_cpi_official; add_cpi_official
\* (lines 510-512) refuses a year_month that is not 4 characters, a dash and
\* 2 characters
ImportCpiLine(acc, line) ==
    IF Len(line) < 2 THEN acc
    ELSE IF (HasMom(line) /\ float(line[3]) = None) \/ float(line[2]) = None
    THEN [acc EXCEPT !.errors = Append(@, [part |-> ToYearMonth(line[1]), error |-> "Invalid value"])]
    ELSE IF ToYearMonth(line[1]).text = "ym"
    THEN [acc EXCEPT
            !.rows = add_cpi_official(@, ToYearMonth(line[1]).val, mom_val(line)),
            !.imported = @ + 1]
    ELSE [acc EXCEPT !.errors = Append(@, [part |-> ToYearMonth(line[1]), error |-> "Format must be YYYY-MM"])]

RECURSIVE ImportCpiLines(_, _, _)
\* line 555: the loop over the lines from index i on
ImportCpiLines(acc, lines, i) ==
    IF i > Len(lines) THEN acc
    ELSE ImportCpiLines(ImportCpiLine(acc, lines[i]), lines, i + 1)

\* bulk_import_cpi_official(csv_text)
bulk_import_cpi_official(rows, lines) ==
    ImportCpiLines([rows |-> rows, imported |-> 0, errors |-> <<>>], NonEmpty(lines), 1)

\* the longest CSV text imported, in lines
MaxLines == 2

\* the lines of the texts handed to bulk_import_cpi_usd_rates
RateLines ==
    {<<>>, <<Junk>>, <<Junk, Num(28)>>, <<DateText(1), Junk>>}
    \cup {<<DateText(d), Num(r)>> : d \in {1, MaxRateDate}, r \in ManualRates}

\* the lines of the texts handed to bulk_import_cpi_official
CpiLines ==
    {<<>>, <<Junk>>, <<Junk, Num(40), Num(1)>>, <<YmText(1), Junk, Num(1)>>,
     <<YmText(1), Num(40), Junk>>, <<YmText(0), Num(40), Num(1)>>,
     <<YmText(1), Num(40)>>, <<YmText(1), Num(40), Blank>>,
     <<YmText(1), Num(40), Num(2)>>, <<MyText(2), Num(40), Num(1)>>}

Texts(kinds) == UNION {[1..n -> kinds] : n \in 0..MaxLines}

\* one call of bulk_import_cpi_usd_rates; call keeps the text, the table
\* found and what the message reports
BulkImportCpiUsdRates ==
    /\ call = NoCall
    /\ \E lines \in Texts(RateLines) :
          /\ cpi_usd_rates' = bulk_import_cpi_usd_rates(cpi_usd_rates, lines).rows
          /\ call' = [op |-> "bulk_import_cpi_usd_rates", lines |-> lines,
                      before |-> cpi_usd_rates,
                      imported |-> bulk_import_cpi_usd_rates(cpi_usd_rates, lines).imported,
                      errors |-> bulk_import_cpi_usd_rates(cpi_usd_rates, lines).errors]
    /\ UNCHANGED <<market, dbVars, fifoVars, calcVars>>

\* one call of bulk_import_cpi_official
BulkImportCpiOfficial ==
    /\ call = NoCall
    /\ \E lines \in Texts(CpiLines) :
          /\ cpi_official' = bulk_import_cpi_official(cpi_official, lines).rows
          /\ call' = [op |-> "bulk_import_cpi_official", lines |-> lines,
                      before |-> cpi_official,
                      imported |-> bulk_import_cpi_official(cpi_official, lines).imported,
                      errors |-> bulk_import_cpi_official(cpi_official, lines).errors]
    /\ UNCHANGED <<cpi_usd_rates, market, cpi_call, rr, report, dbVars, fifoVars>>

InitImport ==
    /\ IdleDb /\ IdleFifo
    /\ cpi_usd_rates \in {{}, {[date |-> 1, usd_try_rate |-> 28, source |-> "manual"]}}
    /\ market = {} /\ call = NoCall
    /\ cpi_official \in {{}, {[year_month |-> 1, cpi_mom |-> <<1>>]}}
    /\ cpi_call = NoCpiCall /\ rr = NoReturn /\ report = NoReport

NextImport == BulkImportCpiUsdRates \/ BulkImportCpiOfficial

SpecImport == InitImport /\ [][NextImport]_vars

\* ===================================================================
\* The price specification: the writers of the fund_prices table
\* ===================================================================
\* tefas_fetcher.py line 20: the days one TEFAS request spans
CHUNK_DAYS == 60

\* the table row of a price
PriceRow(date, t, price) == [date |-> date, ticker |-> t, price |-> price]
HasPrice(prices, date, t) == \E r \in prices : r.date = date /\ r.ticker = t

\* an INSERT OR REPLACE INTO fund_prices: the row takes the place of the one
\* stored for its (date, ticker)
InsertOrReplace(prices, date, t, price) ==
    {r \in prices : ~(r.date = date /\ r.ticker = t)} \cup {PriceRow(date, t, price)}

\* INSERT OR IGNORE INTO fund_prices (date, ticker, price, ...), the table
\* being UNIQUE(date, ticker)
InsertOrIgnore(prices, date, t, price) ==
    IF HasPrice(prices, date, t) THEN prices
    ELSE prices \cup {PriceRow(date, t, price)}

\* add_fund_price(date, ticker, price): a date that does not parse is
\* answered with an error, a pair already stored with "already exists"
add_fund_price(prices, date, t, price) ==
    IF date \notin Dates
    THEN [rows |-> prices, status |-> "Date must be in YYYY-MM-DD format"]
    ELSE [rows |-> InsertOrIgnore(prices, date, ticker_upper(t), price),
          status |-> IF HasPrice(prices, date, ticker_upper(t))
                     THEN "Price already exists" ELSE "Price added"]

\* lines 804-816: one (date, ticker, price) of the loop; c.rowcount is 1 when
\* the row went in
BulkAddRow(acc, p) ==
    [rows |-> InsertOrIgnore(acc.rows, p[1], ticker_upper(p[2]), p[3]),
     inserted |-> acc.inserted + (IF HasPrice(acc.rows, p[1], ticker_upper(p[2])) THEN 0 ELSE 1),
     skipped |-> acc.skipped + (IF HasPrice(acc.rows, p[1], ticker_upper(p[2])) THEN 1 ELSE 0)]

RECURSIVE BulkAddRows(_, _, _)
\* line 803: the loop over the prices from index i on
BulkAddRows(acc, prices, i) ==
    IF i > Len(prices) THEN acc
    ELSE BulkAddRows(BulkAddRow(acc, prices[i]), prices, i + 1)

\* bulk_add_fund_prices(prices): the table left, inserted and skipped
bulk_add_fund_prices(rows, prices) ==
    BulkAddRows([rows |-> rows, inserted |-> 0, skipped |-> 0], prices, 1)

RECURSIVE iterrows(_)
\* data.iterrows(): the rows of a frame of closes, in date order
iterrows(data) ==
    IF data = {} THEN <<>>
    ELSE LET first == CHOOSE m \in data : \A o \in data : m.date <= o.date
         IN <<first>> \o iterrows(data \ {first})

\* the (date, ticker, price) tuples built from the rows of a frame
AllPrices(frame, t) == [i \in 1..Len(frame) |-> <<frame[i].date, t, frame[i].close>>]

\* what a fetch returns without storing anything
NothingStored(rows, status) ==
    [rows |-> rows, all_prices |-> <<>>, inserted |-> 0, skipped |-> 0, status |-> status]

\* lines 84-87 (yfinance_stocks.py lines 77-81): the collected prices are
\* stored in one bulk insert
StoreAll(rows, all_prices) ==
    [rows |-> bulk_add_fund_prices(rows, all_prices).rows,
     all_prices |-> all_prices,
     inserted |-> bulk_add_fund_prices(rows, all_prices).inserted,
     skipped |-> bulk_add_fund_prices(rows, all_prices).skipped,
     status |-> "new prices added"]

\* fetch_stock_prices(ticker, start_date, end_date) when stock.history
\* answers with data, or raises
fetch_stock_prices(rows, t, data, raises) ==
    IF raises THEN NothingStored(rows, "Error fetching")
    ELSE IF data = {} THEN NothingStored(rows, "No data found")
    ELSE StoreAll(rows, AllPrices(iterrows(data), ticker_upper(t)))

min(a, b) == IF a < b THEN a ELSE b

RECURSIVE ChunkLoop(_, _, _)
\* tefas_fetcher.py lines 67-82: the requests the while loop makes, from
\* current_start on
ChunkLoop(requests, current_start, end_dt) ==
    IF current_start < end_dt
    THEN ChunkLoop(Append(requests, [chunk_start |-> current_start,
                                     chunk_end |-> min(current_start + CHUNK_DAYS, end_dt)]),
                   min(current_start + CHUNK_DAYS, end_dt) + 1, end_dt)
    ELSE requests

\* crawler.fetch(start, end, name) of a chunk: the prices TEFAS holds for
\* the days of the request, nothing when the request failed
ChunkData(data, request, fails) ==
    IF fails THEN <<>>
    ELSE iterrows({m \in data : request.chunk_start <= m.date /\ m.date <= request.chunk_end})

RECURSIVE Collect(_, _, _, _, _)
\* lines 74-80: all_prices after the requests from index i on
Collect(all_prices, requests, data, failed, t) ==
    IF requests = <<>> THEN all_prices
    ELSE Collect(all_prices \o AllPrices(ChunkData(data, Head(requests), 1 \in failed), t),
                 Tail(requests), data, {i - 1 : i \in failed \ {1}}, t)

\* fetch_fund_prices(ticker, start_date, end_date) when TEFAS holds data and
\* the requests numbered in failed raise
fetch_fund_prices(rows, t, start_dt, end_dt, data, failed) ==
    IF Collect(<<>>, ChunkLoop(<<>>, start_dt, end_dt), data, failed, ticker_upper(t)) = <<>>
    THEN NothingStored(rows, "No data found")
    ELSE StoreAll(rows, Collect(<<>>, ChunkLoop(<<>>, start_dt, end_dt), data, failed,
                                ticker_upper(t)))

\* the longest list handed to bulk_add_fund_prices
MaxBatch == 2

\* the prices a user enters, and the tickers as typed
EnteredPrices == {10, 12}
TypedTickers == {"AAA", " aaa"}
Batches ==
    UNION {[1..n -> Dates \X TypedTickers \X EnteredPrices] : n \in 0..MaxBatch}

\* the lengths of the date ranges fetched from TEFAS: end_date - start_date
Spans ==
    {-1, 0, 1, CHUNK_DAYS, CHUNK_DAYS + 1, CHUNK_DAYS + 2, 2 * CHUNK_DAYS + 2,
     2 * CHUNK_DAYS + 3}

\* one call of add_fund_price; call keeps the table found, the row offered
\* and what was answered
AddFundPrice ==
    /\ call = NoCall
    /\ \E date \in 0..MaxDate, t \in TypedTickers, price \in EnteredPrices :
          /\ fund_prices' = add_fund_price(fund_prices, date, t, price).rows
          /\ call' = [op |-> "add_fund_price", before |-> fund_prices,
                      rows |-> IF date \in Dates THEN <<<<date, t, price>>>> ELSE <<>>,
                      status |-> add_fund_price(fund_prices, date, t, price).status]
    /\ UNCHANGED <<transactions, next_id, tx_status, cpi_usd_rates, market,
                   fifoVars, calcVars>>

\* one call of bulk_add_fund_prices
BulkAddFundPrices ==
    /\ call = NoCall
    /\ \E prices \in Batches :
          /\ fund_prices' = bulk_add_fund_prices(fund_prices, prices).rows
          /\ call' = [op |-> "bulk_add_fund_prices", before |-> fund_prices,
                      rows |-> prices,
                      inserted |-> bulk_add_fund_prices(fund_prices, prices).inserted,
                      skipped |-> bulk_add_fund_prices(fund_prices, prices).skipped]
    /\ UNCHANGED <<transactions, next_id, tx_status, cpi_usd_rates, market,
                   fifoVars, calcVars>>

\* one call of fetch_stock_prices: Yahoo answers with some of the closes the
\* market had, or the request raises
FetchStockPrices ==
    /\ call = NoCall
    /\ \E t \in TypedTickers, data \in SUBSET market, raises \in BOOLEAN :
          /\ fund_prices' = fetch_stock_prices(fund_prices, t, data, raises).rows
          /\ call' = [op |-> "fetch_stock_prices", before |-> fund_prices,
                      rows |-> fetch_stock_prices(fund_prices, t, data, raises).all_prices,
                      inserted |-> fetch_stock_prices(fund_prices, t, data, raises).inserted,
                      skipped |-> fetch_stock_prices(fund_prices, t, data, raises).skipped,
                      status |-> fetch_stock_prices(fund_prices, t, data, raises).status]
    /\ UNCHANGED <<transactions, next_id, tx_status, cpi_usd_rates, market,
                   fifoVars, calcVars>>

\* one call of fetch_fund_prices with both dates given: some of its requests
\* may fail
FetchFundPrices ==
    /\ call = NoCall
    /\ \E t \in TypedTickers, start_dt \in Dates, span \in Spans :
          \E failed \in SUBSET (1..Len(ChunkLoop(<<>>, start_dt, start_dt + span))) :
             /\ fund_prices' = fetch_fund_prices(fund_prices, t, start_dt, start_dt + span,
                                                 market, failed).rows
             /\ call' = [op |-> "fetch_fund_prices", before |-> fund_prices,
                         start_dt |-> start_dt, end_dt |-> start_dt + span,
                         requests |-> ChunkLoop(<<>>, start_dt, start_dt + span),
                         failed |-> failed,
                         rows |-> fetch_fund_prices(fund_prices, t, start_dt, start_dt + span,
                                                    market, failed).all_prices,
                         inserted |-> fetch_fund_prices(fund_prices, t, start_dt,
                                                        start_dt + span, market, failed).inserted,
                         skipped |-> fetch_fund_prices(fund_prices, t, start_dt,
                                                       start_dt + span, market, failed).skipped,
                         status |-> fetch_fund_prices(fund_prices, t, start_dt,
                                                      start_dt + span, market, failed).status]
    /\ UNCHANGED <<transactions, next_id, tx_status, cpi_usd_rates, market,
                   fifoVars, calcVars>>

\* the days the market traded on: some of the dates and a day two months on
TradingDays == Dates \cup {CHUNK_DAYS + 2}

\* The price specification: a table holding a price for some of the dates, as
\* earlier calls left it, and a market that traded on some of its days
InitPrices ==
    /\ transactions = <<>> /\ next_id = 1 /\ tx_status = NULL
    /\ \E stored \in [Dates -> {0} \cup EnteredPrices] :
          fund_prices = {PriceRow(d, "AAA", stored[d]) : d \in {x \in Dates : stored[x] # 0}}
    /\ cpi_usd_rates = {} /\ call = NoCall
    /\ \E open \in SUBSET TradingDays :
          market = {[date |-> d, close |-> Close(d)] : d \in open}
    /\ IdleFifo /\ IdleCalc

NextPrices == AddFundPrice \/ BulkAddFundPrices \/ FetchStockPrices \/ FetchFundPrices

SpecPrices == InitPrices /\ [][NextPrices]_vars

\* ===================================================================
\* The concurrent specification: two add_transaction SELL calls for one
\* ticker running side by side
\* ===================================================================
\* get_connection opens a connection of its own for every with block and
\* commits when the block ends: the holdings query of get_ticker_holdings
\* (line 232) and the INSERT of lines 236-243 are two transactions, and a
\* statement of another caller may commit between them. In this specification
\* tx_status keeps for each caller the arguments, where the call stands and
\* what it read and returned.
Callers == {1, 2}
SellTicker == "AAA"

\* a call that has not started
Calling(date, quantity, price_per_share) ==
    [pc |-> "call", date |-> date, quantity |-> quantity,
     price_per_share |-> price_per_share, holdings |-> 0, status |-> NULL]

\* lines 221-228: the price of the call, None when none is found
SellPrice(c) ==
    IF c.price_per_share # None /\ c.price_per_share[1] > 0 THEN c.price_per_share
    ELSE get_fund_price_for_date(fund_prices, ticker_upper(SellTicker), c.date, FALSE)

\* add_transaction lines 205-234 of caller p: the price lookup and the
\* holdings check, which rejects the sell or lets it go on
SellCheck(p) ==
    /\ tx_status[p].pc = "call"
    /\ tx_status' =
          [tx_status EXCEPT ![p] =
              IF SellPrice(tx_status[p]) = None
              THEN [tx_status[p] EXCEPT !.pc = "done", !.status = "No price found"]
              ELSE IF get_ticker_holdings(transactions, SellTicker, tx_status[p].date)
                         < tx_status[p].quantity
              THEN [tx_status[p] EXCEPT
                       !.pc = "done", !.status = "Insufficient shares",
                       !.holdings = get_ticker_holdings(transactions, SellTicker,
                                                        tx_status[p].date)]
              ELSE [tx_status[p] EXCEPT
                       !.pc = "checked",
                       !.holdings = get_ticker_holdings(transactions, SellTicker,
                                                        tx_status[p].date)]]
    /\ UNCHANGED <<transactions, next_id, fund_prices, fifoVars, rateVars, calcVars>>

\* add_transaction lines 236-248 of caller p: the INSERT in a connection of
\* its own, and the answer
SellInsert(p) ==
    /\ tx_status[p].pc = "checked"
    /\ transactions' = Insert(transactions, next_id, tx_status[p].date,
                              ticker_upper(SellTicker), tx_status[p].quantity, 0,
                              ASSET_TEFAS, CURRENCY_TRY, TX_SELL,
                              IF tx_status[p].price_per_share # None
                                 /\ tx_status[p].price_per_share[1] > 0
                              THEN tx_status[p].price_per_share ELSE None)
    /\ next_id' = next_id + 1
    /\ tx_status' = [tx_status EXCEPT ![p] = [@ EXCEPT !.pc = "done", !.status = TX_SELL]]
    /\ UNCHANGED <<fund_prices, fifoVars, rateVars, calcVars>>

\* the logs the two calls find: one or two buys of the ticker
BoughtLogs ==
    {<<>>} \cup
    UNION {{[i \in 1..n |->
               [id |-> i, date |-> s[i][1], ticker |-> SellTicker, quantity |-> s[i][2],
                price_per_share |-> <<10>>, tax_rate |-> 0, asset_type |-> ASSET_TEFAS,
                currency |-> CURRENCY_TRY, transaction_type |-> TX_BUY]] :
            s \in [1..n -> Dates \X QuantityInputs]} : n \in 1..MaxLogRows}

\* The concurrent specification: a log of buys, one fetched price, and two
\* sells about to be made
InitSell ==
    /\ transactions \in BoughtLogs
    /\ next_id = Len(transactions) + 1
    /\ fund_prices = {[date |-> MaxDate, ticker |-> "AAA", price |-> 12]}
    /\ tx_status \in [Callers -> {Calling(d, q, price) :
                                     d \in Dates, q \in QuantityInputs, price \in PriceInputs}]
    /\ IdleFifo /\ IdleRates /\ IdleCalc

NextSell == \E p \in Callers : SellCheck(p) \/ SellInsert(p)

SpecSell == InitSell /\ [][NextSell]_vars

\* ===================================================================
\* Properties of the FIFO lot engine
\* ===================================================================
Done == fifo.pc = "done"

RECURSIVE SumQuantity(_, _, _)
\* the total quantity of the rows of ticker t and transaction type ty
SumQuantity(rows, t, ty) ==
    IF rows = <<>> THEN 0
    ELSE (IF Head(rows).ticker = t /\ Head(rows).transaction_type = ty
          THEN Head(rows).quantity ELSE 0)
         + SumQuantity(Tail(rows), t, ty)

SumMatched(closed_lots) == SumSeq(closed_lots, "quantity")
SumRemaining(open_lots) == SumSeq(open_lots, "remaining_quantity")

\* some SELL of the replayed ticker was left partly unmatched
Oversold == SumQuantity(transactions, ticker, TX_SELL) > SumMatched(fifo.closed_lots)

\* C1: FIFO conservation. When calculate_fifo_for_ticker returns, the
\* remaining quantity of the open lots plus the matched quantity of the
\* closed lots equals the total BUY quantity of the ticker, oversold logs
\* included.
C1_Conservation ==
    Done =>
        /\ SumRemaining(fifo.result.open_lots) + SumMatched(fifo.result.closed_lots)
              = SumQuantity(transactions, ticker, TX_BUY)
        /\ fifo.result.total_shares_held = SumRemaining(fifo.result.open_lots)

\* an oversold log replayed to the end, with shares matched and shares left
C1_Witness ==
    /\ Done /\ Oversold
    /\ fifo.result.open_lots # <<>> /\ fifo.result.closed_lots # <<>>

\* the documented scenario as the replay sees it: buy 100 @ 10 on d1,
\* buy 50 @ 15 on d2 > d1, then the sell of 120 @ 20
Scenario(rows) ==
    /\ Len(rows) = 3
    /\ rows[1].transaction_type = TX_BUY /\ rows[1].quantity = 100
    /\ rows[1].price_per_share = <<10>>
    /\ rows[2].transaction_type = TX_BUY /\ rows[2].quantity = 50
    /\ rows[2].price_per_share = <<15>>
    /\ rows[1].date < rows[2].date
    /\ rows[3].transaction_type = TX_SELL /\ rows[3].quantity = 120
    /\ rows[3].price_per_share = <<20>>

\* C2: FIFO ordering. No lot is matched while a lot bought on an earlier
\* date is still open, matches are emitted oldest lot first, and the
\* documented scenario closes exactly [100 @ 10, 20 @ 15] and leaves the
\* single open lot 30 @ 15.
C2_FifoOrdering ==
    /\ \A j \in 1..Len(fifo.closed_lots) : \A k \in 1..Len(fifo.open_lots) :
          fifo.closed_lots[j].buy_date <= fifo.open_lots[k].buy_date
    /\ \A j \in 1..Len(fifo.closed_lots) - 1 :
          fifo.closed_lots[j].buy_date <= fifo.closed_lots[j + 1].buy_date
    /\ (Done /\ Scenario(fifo.ticker_df)) =>
          /\ Len(fifo.result.closed_lots) = 2
          /\ fifo.result.closed_lots[1].quantity = 100
          /\ fifo.result.closed_lots[1].buy_price = 10
          /\ fifo.result.closed_lots[2].quantity = 20
          /\ fifo.result.closed_lots[2].buy_price = 15
          /\ Len(fifo.result.open_lots) = 1
          /\ fifo.result.open_lots[1].remaining_quantity = 30
          /\ fifo.result.open_lots[1].buy_price = 15

C2_Witness == Done /\ Scenario(fifo.ticker_df)

\* the rows of the replayed ticker with transaction type ty
RowsOfType(ty) ==
    {fifo.ticker_df[n] : n \in {m \in 1..Len(fifo.ticker_df) :
                                  fifo.ticker_df[m].transaction_type = ty}}

\* C3: every LotMatch carries the date, price and tax rate of a BUY row and
\* the date and price of a SELL row, with cost_basis = buy_price * quantity,
\* proceeds = sell_price * quantity and realized_gain = proceeds - cost_basis;
\* the documented scenario realizes 1100 and leaves an open lot of cost
\* basis 450.
C3_LotMatchFromLot ==
    /\ \A j \in 1..Len(fifo.closed_lots) :
          LET m == fifo.closed_lots[j]
          IN /\ \E b \in RowsOfType(TX_BUY) :
                   /\ b.date = m.buy_date
                   /\ b.price_per_share = <<m.buy_price>>
                   /\ b.tax_rate = m.tax_rate
             /\ \E sl \in RowsOfType(TX_SELL) :
                   sl.date = m.sell_date /\ sl.price_per_share = <<m.sell_price>>
             /\ m.cost_basis = m.buy_price * m.quantity
             /\ m.proceeds = m.sell_price * m.quantity
             /\ m.realized_gain = m.proceeds - m.cost_basis
    /\ (Done /\ Scenario(fifo.ticker_df)) =>
          /\ fifo.result.total_realized_gain = 1100
          /\ fifo.result.total_cost_basis = 450
          /\ fifo.result.open_lots[1].cost_basis = 450

\* the scenario replayed, its second match taken from the 15-TRY lot
C3_Witness ==
    /\ Done /\ Scenario(fifo.ticker_df)
    /\ Len(fifo.result.closed_lots) = 2
    /\ fifo.result.closed_lots[2].tax_rate = 10

\* C4: oversold tolerance. A SELL larger than the open lots leaves the while
\* loop once the queue is empty and the call goes on to return; every open
\* lot is a BUY row of the ticker with 0 <= remaining <= bought, and no more
\* is matched than was bought or than was sold.
C4_OversoldTolerated ==
    /\ (fifo.pc = "while" /\ fifo.open_lots = <<>>
            /\ fifo.sell_quantity_remaining > 0) => ENABLED FifoSellEnd
    /\ fifo.pc # "done" => ENABLED NextFifo
    /\ \A k \in 1..Len(fifo.open_lots) :
          LET lot == fifo.open_lots[k]
          IN /\ lot.remaining_quantity >= 0
             /\ lot.remaining_quantity <= lot.quantity
             /\ \E b \in RowsOfType(TX_BUY) :
                   /\ b.id = lot.buy_id /\ b.quantity = lot.quantity
                   /\ b.price_per_share = <<lot.buy_price>>
             /\ \A k2 \in 1..Len(fifo.open_lots) :
                   k2 # k => fifo.open_lots[k2].buy_id # lot.buy_id
    /\ SumMatched(fifo.closed_lots) <= SumQuantity(transactions, ticker, TX_BUY)
    /\ SumMatched(fifo.closed_lots) <= SumQuantity(transactions, ticker, TX_SELL)

\* a sell that emptied the queue with quantity still to match, replayed to
\* the end
C4_Witness ==
    /\ Done /\ Oversold /\ fifo.result.closed_lots # <<>>
    /\ fifo.sell_quantity_remaining > 0

\* an entry of the errors list that reports an unmatched SELL
OversoldWarning(e) == e.error = "OversoldInventory"

\* C5: oversold warning. Once a ticker with a partly unmatched SELL has been
\* replayed and analysed, its FIFOResult carries a warning or the errors of
\* the status text name the oversold SELL.
C5_OversoldWarned ==
    (Done /\ errors.ran /\ Oversold) =>
        \/ "warnings" \in DOMAIN fifo.result
        \/ \E n \in 1..Len(errors.list) : OversoldWarning(errors.list[n])

\* C7: same-date tie-break. The rows the for loop replays are in ascending
\* date order and, within one date, in ascending id order.
C7_TieBreakById ==
    \A m, n \in 1..Len(fifo.ticker_df) :
        (m < n /\ fifo.ticker_df[m].date = fifo.ticker_df[n].date)
            => fifo.ticker_df[m].id < fifo.ticker_df[n].id

\* the rows of sequence rows rearranged by permutation p
Rearranged(rows, p) == [n \in 1..Len(rows) |-> rows[p[n]]]

\* C8: FIFO determinism. For the same rows in any order the caller may
\* supply them, calculate_fifo_for_ticker has one possible result.
C8_Deterministic ==
    fifo.pc = "entry" =>
        \A frame \in get_portfolio(transactions, fund_prices) :
            \A p \in Perms(Len(frame)) :
                /\ calculate_fifo_for_ticker(Rearranged(frame, p), ticker)
                      = calculate_fifo_for_ticker(frame, ticker)
                /\ Cardinality(calculate_fifo_for_ticker(Rearranged(frame, p), ticker)) = 1

\* ===================================================================
\* Properties of the transaction log
\* ===================================================================
RECURSIVE Cumulative(_, _, _, _)
\* the quantity of the rows of ticker t and type ty dated <= D among the
\* first n rows of the table
Cumulative(n, t, ty, D) ==
    IF n = 0 THEN 0
    ELSE (IF /\ transactions[n].ticker = t
             /\ transactions[n].transaction_type = ty
             /\ transactions[n].date <= D
          THEN transactions[n].quantity ELSE 0)
         + Cumulative(n - 1, t, ty, D)

\* C6: holdings invariant of the transaction log. After any sequence of
\* add_transaction and delete_transaction calls, for every ticker and every
\* date D the SELL quantity dated <= D does not exceed the BUY quantity
\* dated <= D.
C6_HoldingsInvariant ==
    \A t \in UniqueTickers(transactions) : \A D \in Dates :
        Cumulative(Len(transactions), t, TX_SELL, D)
            <= Cumulative(Len(transactions), t, TX_BUY, D)

\* ===================================================================
\* Properties of the rate lookups
\* ===================================================================
StoredDates == {r.date : r \in cpi_usd_rates}
RateOf(date) == (CHOOSE r \in cpi_usd_rates : r.date = date).usd_try_rate
FallbackLookup == call.op = "get_cpi_usd_rate_for_date" /\ ~call.flag

\* C9: no look-ahead in the rate lookup. get_cpi_usd_rate_for_date(date,
\* exact_match=False) returns the rate stored for date if there is one,
\* else the rate of the greatest stored date before date, else None; never
\* the rate of a later date.
C9_NoLookAhead ==
    FallbackLookup =>
        LET earlier == {d \in StoredDates : d < call.date}
        IN IF call.date \in StoredDates
           THEN call.ret = <<RateOf(call.date)>>
           ELSE IF earlier # {}
           THEN \E d \in earlier :
                   /\ \A o \in earlier : o <= d
                   /\ call.ret = <<RateOf(d)>>
           ELSE call.ret = None

\* a lookup for a date without a rate that fell back to an earlier date
\* while a later date held a different rate
C9_Witness ==
    /\ FallbackLookup
    /\ call.date \notin StoredDates
    /\ call.ret # None
    /\ \E d \in StoredDates : d > call.date /\ <<RateOf(d)>> # call.ret

\* C10: exact-match mode. What get_usd_rate(date, auto_fetch=True) returns
\* is None or a rate observed for exactly that date: the rate the table
\* holds for the date, which, when it was fetched, is the market's close of
\* that very date.
C10_ExactDateOnly ==
    (call.op = "get_usd_rate" /\ call.flag /\ call.ret # None) =>
        \E r \in cpi_usd_rates :
            /\ r.date = call.date
            /\ <<r.usd_try_rate>> = call.ret
            /\ r.source = "yfinance_auto" =>
                   \E m \in market : m.date = call.date /\ <<m.close>> = call.ret

\* the rate a table holds for a date
RateIn(rows, date) == (CHOOSE r \in rows : r.date = date).usd_try_rate

\* C11: rate upsert. The table holds at most one row per date; after
\* add_cpi_usd_rate(date, rate) the date's row carries that rate, a write to
\* another date leaves it alone, and the same write made again changes
\* nothing.
C11_RateUpsert ==
    /\ \A r1, r2 \in cpi_usd_rates : r1.date = r2.date => r1 = r2
    /\ (call.op = "add_cpi_usd_rate" /\ call.ret # None) =>
          \A r \in cpi_usd_rates : r.date = call.date => <<r.usd_try_rate>> = call.ret
    /\ (call.op = "add_cpi_usd_rate" /\ call.ret # None) =>
          \E r \in cpi_usd_rates : r.date = call.date
    /\ \A date \in RateDates, rate \in ManualRates :
          LET once == add_cpi_usd_rate(cpi_usd_rates, date, rate, "manual")
          IN /\ add_cpi_usd_rate(once, date, rate, "manual") = once
             /\ \A other \in RateDates \ {date}, rate2 \in ManualRates :
                   RateIn(add_cpi_usd_rate(once, other, rate2, "manual"), date) = rate

\* a write for a date that already had a row, with other dates stored
C11_Witness ==
    /\ call.op = "add_cpi_usd_rate" /\ call.flag /\ call.ret # None
    /\ Cardinality(cpi_usd_rates) >= 2

\* ===================================================================
\* Properties of the CPI interpolation
\* ===================================================================
CpiCalled == cpi_call.start_date.ym # 0
CrossMonth == CpiCalled /\ cpi_call.start_date.ym # cpi_call.end_date.ym
MonthsBetween == {ym \in Months : cpi_call.start_date.ym < ym /\ ym < cpi_call.end_date.ym}

\* C12: CPI missing full month. In the cross-month case the result is None
\* when a month strictly between the start month and the end month has no
\* MoM value, its row absent or its MoM null.
C12_MissingFullMonth ==
    (CrossMonth /\ \E ym \in MonthsBetween : get_cpi_mom_for_month(cpi_official, ym) = None)
        => cpi_call.ret = None

\* the stored rows with a MoM value
WithMom == {r \in cpi_official : r.cpi_mom # None}

\* C13: CPI end-month degradation. In the cross-month case a result of
\* None comes from the start month or from a null MoM between, never from
\* the end month; a missing end-month MoM is replaced by the MoM of the
\* latest month that has one (the span is skipped if no month has); an end
\* date on day 1 adds no factor, whatever the end month's row is.
C13_EndMonthDegrades ==
    CrossMonth =>
        LET start_date == cpi_call.start_date
            end_date == cpi_call.end_date
            between == RowsBetween(cpi_official, start_date.ym, end_date.ym)
            cause == \/ get_cpi_mom_for_month(cpi_official, start_date.ym) = None
                     \/ \E n \in 1..Len(between) : between[n].cpi_mom = None
        IN /\ cpi_call.ret = None <=> cause
           /\ (cpi_call.ret # None /\ end_date.day > 1
                  /\ get_cpi_mom_for_month(cpi_official, end_date.ym) = None) =>
                 LET v == cpi_call.ret[1]
                 IN IF WithMom = {} THEN Len(v) = 1 + Len(between)
                    ELSE \E r \in WithMom :
                            /\ \A o \in WithMom : o.year_month <= r.year_month
                            /\ Len(v) = 2 + Len(between)
                            /\ v[Len(v)] = Power(r.cpi_mom[1], end_date.day - 1,
                                                 get_days_in_month(end_date.ym))
           /\ end_date.day = 1 =>
                 /\ cpi_call.ret # None => Len(cpi_call.ret[1]) = 1 + Len(between)
                 /\ \A cpi_mom \in MomInputs :
                       calculate_cumulative_cpi_daily(
                           add_cpi_official(cpi_official, end_date.ym, cpi_mom),
                           start_date, end_date) = cpi_call.ret

\* a calculation that ends inside a month without a MoM and took the rate
\* of another month
C13_Witness ==
    /\ CrossMonth /\ cpi_call.start_date.ym < cpi_call.end_date.ym
    /\ cpi_call.end_date.day > 1
    /\ get_cpi_mom_for_month(cpi_official, cpi_call.end_date.ym) = None
    /\ cpi_call.ret # None
    /\ Len(cpi_call.ret[1]) >= 2

\* C14: CPI zero interval. calculate_cumulative_cpi_daily(d, d), and any
\* same-month call with end.day <= start.day, returns exactly 0 whatever
\* the table holds.
C14_ZeroInterval ==
    (CpiCalled /\ cpi_call.start_date.ym = cpi_call.end_date.ym
        /\ cpi_call.end_date.day <= cpi_call.start_date.day)
        => cpi_call.ret = <<<<>>>>

\* the same date twice with an empty table
C14_Witness ==
    /\ CpiCalled /\ cpi_call.start_date = cpi_call.end_date
    /\ cpi_official = {}
    /\ cpi_call.ret = <<<<>>>>

\* day 1 of a month A to day 1 of month A + 3, months A, A + 1 and A + 2
\* holding MoM values
ThreeFullMonths ==
    /\ CpiCalled
    /\ cpi_call.start_date.day = 1 /\ cpi_call.end_date.day = 1
    /\ cpi_call.end_date.ym = cpi_call.start_date.ym + 3
    /\ \A k \in 0..2 :
          get_cpi_mom_for_month(cpi_official, cpi_call.start_date.ym + k) # None

\* C15: CPI full-month compounding. Over three full months the result is
\* ((1 + m1/100)(1 + m2/100)(1 + m3/100) - 1) * 100: each month's factor once,
\* with exponent 1, and nothing for the end month.
C15_FullMonthCompounding ==
    ThreeFullMonths =>
        /\ cpi_call.ret # None
        /\ Len(cpi_call.ret[1]) = 3
        /\ \A k \in 1..3 :
              LET factor == cpi_call.ret[1][k]
              IN /\ <<factor.mom>>
                      = get_cpi_mom_for_month(cpi_official, cpi_call.start_date.ym + k - 1)
                 /\ factor.days = factor.of

\* three full months whose rates are not all the same
C15_Witness ==
    /\ ThreeFullMonths
    /\ cpi_call.ret # None
    /\ \E j, k \in 1..Len(cpi_call.ret[1]) :
          cpi_call.ret[1][j].mom # cpi_call.ret[1][k].mom

\* ===================================================================
\* Properties of calculate_real_return
\* ===================================================================
RealReturnCalled == rr.op = "calculate_real_return"

\* C16: Tax only on gains. In every call of calculate_real_return, whatever
\* the tax rate: if current_price <= buy_price the tax amount is exactly 0
\* and the after-tax current price is current_price; if current_price >
\* buy_price the tax amount is (current_price - buy_price) * tax_rate / 100.
C16_TaxOnlyOnGains ==
    RealReturnCalled =>
        /\ rr.current_price <= rr.buy_price
              => /\ rr.tax_amount[1] = 0
                 /\ rr.after_tax_current[1] = rr.current_price * rr.after_tax_current[2]
        /\ rr.current_price > rr.buy_price
              => rr.tax_amount[1] * 100
                    = (rr.current_price - rr.buy_price) * rr.tax_rate * rr.tax_amount[2]

\* a loss under a positive tax rate, left untaxed
C16_Witness ==
    /\ RealReturnCalled
    /\ rr.current_price < rr.buy_price /\ rr.tax_rate > 0
    /\ rr.tax_amount[1] = 0
    /\ rr.after_tax_current[1] = rr.current_price * rr.after_tax_current[2]

\* the benchmarks of the last call, from the tables it found
UsdOfCall ==
    LET buy == get_usd_rate(rr.rows, rr.buy_date, rr.auto_fetch_usd, rr.fetched_buy)
        current == get_usd_rate(buy.rows, rr.current_date, rr.auto_fetch_usd,
                                rr.fetched_current)
    IN buy.ret # None /\ current.ret # None
CpiOfCall ==
    calculate_cumulative_cpi_daily(cpi_official, strptime(rr.buy_date, 1),
                                   strptime(rr.current_date, 1)) # None

\* C17: Benchmark availability. A call of calculate_real_return that does
\* not skip the benchmarks returns the error result if and only if neither
\* the exchange-rate benchmark nor the CPI benchmark could be computed; with
\* exactly one of them it returns a normal result with that benchmark's
\* figures filled and the other's absent.
C17_BenchmarkAvailability ==
    (RealReturnCalled /\ ~rr.skip_usd_cpi) =>
        /\ IsError(rr.ret) <=> (~UsdOfCall /\ ~CpiOfCall)
        /\ (UsdOfCall /\ ~CpiOfCall)
              => /\ rr.ret.real_return_usd_pct # None /\ rr.ret.usd_inflation_pct # None
                 /\ rr.ret.real_return_cpi_pct = None /\ rr.ret.cpi_inflation_pct = None
        /\ (~UsdOfCall /\ CpiOfCall)
              => /\ rr.ret.real_return_cpi_pct # None /\ rr.ret.cpi_inflation_pct # None
                 /\ rr.ret.real_return_usd_pct = None /\ rr.ret.usd_inflation_pct = None

\* a call with the rates of both dates and no CPI rate for the month
C17_Witness ==
    /\ RealReturnCalled /\ ~rr.skip_usd_cpi
    /\ UsdOfCall /\ ~CpiOfCall
    /\ ~IsError(rr.ret)
    /\ rr.ret.real_return_usd_pct # None /\ rr.ret.real_return_cpi_pct = None

\* ===================================================================
\* Properties of analyze_portfolio and calculate_portfolio_summary
\* ===================================================================
Analysed == report.op = "analyze_portfolio"
Summarised == report.op = "calculate_portfolio_summary"
OpenRows == {n \in 1..Len(report.results) : report.results[n].Type = "OPEN"}
OpenLotCount(tickers) ==
    LET RECURSIVE Count(_)
        Count(ts) == IF ts = {} THEN 0
                     ELSE LET t == CHOOSE x \in ts : TRUE
                          IN Len(report.fifo_results[t].open_lots) + Count(ts \ {t})
    IN Count(tickers)
Listed(row) ==
    \E k \in 1..Len(report.errors) :
        /\ report.errors[k].ticker = row.Ticker
        /\ report.errors[k].buy_date = row.Date

\* C18: Per-lot error isolation. Whatever the log, the rates, the CPI rows
\* and the prices, analyze_portfolio returns its outputs without raising:
\* every open lot has its row in the detail table, a lot whose real return
\* could not be computed is flagged there and listed in the status text, the
\* other lots are computed, and every ticker has its summary row.
C18_PerLotErrorIsolation ==
    Analysed =>
        /\ ~report.raised
        /\ Cardinality(OpenRows) = OpenLotCount(DOMAIN report.fifo_results)
        /\ \A n \in OpenRows :
              /\ report.results[n].vs_USD.text = "N/A" <=> Listed(report.results[n])
              /\ report.results[n].vs_USD.text # "N/A"
                    => report.results[n].Nominal.text = "%"
        /\ \A t \in DOMAIN report.fifo_results :
              \E k \in 1..Len(report.summary) : report.summary[k].Ticker = t

\* C19: Default current price. For every open non-cash lot whose ticker has
\* no current price supplied (absent or not positive), analyze_portfolio
\* takes the lot's buy price as the current price and the nominal return it
\* reports for the lot is 0, whatever the tax rate (a lot flagged for lack of
\* benchmark data has none reported), and the call does not fail at such a
\* lot.
C19_DefaultCurrentPrice ==
    Analysed =>
        /\ report.raised => price_map(report.price_table, report.at[1].ticker) > 0
        /\ \A n \in OpenRows :
              LET row == report.results[n]
              IN (/\ report.fifo_results[row.Ticker].asset_type # ASSET_CASH
                  /\ price_map(report.price_table, row.Ticker) = 0)
                    => /\ row.Now = row.Buy
                       /\ row.Nominal.text = "%" => row.Nominal.val = 0
                       /\ row.Nominal.text # "%" => Listed(row)

\* an average (None, or <<a>> with a its list and its divisor) that divides
\* by the capital of the lots of its list
IsCapitalWeighted(avg) ==
    (avg # None /\ avg[1].terms # <<>>)
        => avg[1].weight = SumSeq(avg[1].terms, "invested")

\* C20: Capital-weighted average. The average real return reported for a set
\* of lots is the sum of invested_i * realReturn_i over the lots that have
\* the benchmark, divided by the sum of invested_i over the same lots: per
\* ticker in analyze_portfolio and in calculate_portfolio_summary, also when
\* some lots lack the benchmark.
C20_CapitalWeightedAverage ==
    /\ Analysed =>
          \A k \in 1..Len(report.summary) :
             /\ IsCapitalWeighted(report.summary[k].Real_USD)
             /\ IsCapitalWeighted(report.summary[k].Real_CPI)
    /\ (Summarised /\ ~report.raised) =>
          /\ IsCapitalWeighted(<<report.avg_real_gain_usd_pct>>)
          /\ IsCapitalWeighted(<<report.avg_real_gain_cpi_pct>>)

\* whether get_usd_rate resolves a date during the call: by the table the
\* call found, or by the download when auto_fetch is on
Resolves(d) ==
    get_usd_rate(report.rows, d, report.auto_fetch,
                 Download(market, d, report.online /\ report.auto_fetch)).ret # None

\* the open rows of USD lots, and those whose two rates resolve
UsdRows == {n \in OpenRows : report.fifo_results[report.results[n].Ticker].currency = CURRENCY_USD}
ConvertedRows == {n \in UsdRows : Resolves(report.results[n].Date) /\ Resolves(report.today)}

\* C21: USD lots. For an open USD lot whose rates at the buy date and today
\* both resolve, analyze_portfolio reports a real return against the
\* exchange-rate benchmark, and against the CPI when the CPI of the interval
\* is known, computed from the prices converted to TRY, while the nominal
\* return it reports is the after-tax return of the USD prices.
C21_UsdLotsConverted ==
    Analysed =>
        \A n \in ConvertedRows :
           /\ report.results[n].Nominal =
                 Pct(RoundPct(nominal_return(report.results[n].Now, report.results[n].Buy,
                                             report.results[n].Tax)[1],
                              nominal_return(report.results[n].Now, report.results[n].Buy,
                                             report.results[n].Tax)[2]))
           /\ report.results[n].vs_USD.text = "%"
           /\ calculate_cumulative_cpi_daily(cpi_official,
                  strptime(report.results[n].Date, 1), strptime(report.today, 1)) # None
                 => report.results[n].vs_CPI.text = "%"

\* the summary row of a ticker and the total row of a name
SummaryRow(t) == report.summary[CHOOSE k \in 1..Len(report.summary) : report.summary[k].Ticker = t]
HasTotal(name) == \E k \in 1..Len(report.totals) : report.totals[k].Ticker = name
TotalRow(name) == report.totals[CHOOSE k \in 1..Len(report.totals) : report.totals[k].Ticker = name]

RECURSIVE InTryOver(_, _)
\* the sum over the tickers of a figure of their FIFO results in TRY, a USD
\* ticker's through today's rate
InTryOver(tickers, field) ==
    IF tickers = {} THEN 0
    ELSE LET t == CHOOSE x \in tickers : TRUE
         IN (IF report.fifo_results[t].currency = CURRENCY_USD
             THEN report.fifo_results[t][field] * report.today_usd[1]
             ELSE report.fifo_results[t][field])
            + InTryOver(tickers \ {t}, field)

\* C22: Grand totals. For a portfolio with at least one ticker the summary
\* has a TRY total row and a USD total row; every ticker's cost basis,
\* current value and realized gain is in both, a ticker of the other currency
\* through today's rate; and when the rate resolves each TRY total is the USD
\* total times the rate.
C22_GrandTotals ==
    (Analysed /\ ~report.raised /\ DOMAIN report.fifo_results # {}) =>
        /\ HasTotal("TOTAL TRY") /\ HasTotal("TOTAL USD")
        /\ \A t \in DOMAIN report.fifo_results :
              report.fifo_results[t].total_cost_basis > 0
                 => TotalRow("TOTAL TRY").Cost_Basis > 0
        /\ report.today_usd # None =>
              /\ TotalRow("TOTAL TRY").Cost_Basis
                    = InTryOver(DOMAIN report.fifo_results, "total_cost_basis")
              /\ TotalRow("TOTAL TRY").Realized
                    = InTryOver(DOMAIN report.fifo_results, "total_realized_gain")
              /\ \A f \in {"Cost_Basis", "Value", "Realized"} :
                    TotalRow("TOTAL TRY")[f] * TotalRow("TOTAL USD")[f][2]
                       = TotalRow("TOTAL USD")[f][1] * report.today_usd[1]

\* C24: Analysis frame. A call of analyze_portfolio leaves the transactions,
\* the fund prices and the CPI observations as they were; it leaves the
\* exchange-rate store as it was when auto_fetch is off, and otherwise only
\* adds fetched rates for dates that had no stored rate.
C24_AnalysisFrame ==
    [][(report = NoReport /\ report'.op = "analyze_portfolio") =>
          /\ transactions' = transactions
          /\ fund_prices' = fund_prices
          /\ cpi_official' = cpi_official
          /\ ~report'.auto_fetch => cpi_usd_rates' = cpi_usd_rates
          /\ cpi_usd_rates \subseteq cpi_usd_rates'
          /\ \A r \in cpi_usd_rates' \ cpi_usd_rates :
                /\ r.source = "yfinance_auto"
                /\ ~\E q \in cpi_usd_rates : q.date = r.date]_vars

\* a call with auto_fetch on that stored a fetched rate next to a rate that
\* was already there
C24_Witness ==
    /\ Analysed /\ report.auto_fetch
    /\ report.rows # {}
    /\ cpi_usd_rates # report.rows
    /\ report.rows \subseteq cpi_usd_rates

RECURSIVE DetailValue(_, _)
\* the sum over the open rows of a ticker of current price * quantity
DetailValue(ns, t) ==
    IF ns = {} THEN 0
    ELSE LET n == CHOOSE x \in ns : TRUE
         IN (IF report.results[n].Ticker = t
             THEN report.results[n].Now * report.results[n].Qty ELSE 0)
            + DetailValue(ns \ {n}, t)

\* C28: Summary/detail consistency. For every ticker with open lots the
\* current value of its summary row is the sum over its open lots of the
\* lot's current price times its remaining quantity, the values the detail
\* rows stand for, also when no current price is supplied for the ticker.
C28_SummaryDetailConsistency ==
    (Analysed /\ ~report.raised) =>
        \A t \in DOMAIN report.fifo_results :
           report.fifo_results[t].open_lots # <<>>
              => SummaryRow(t).Value = DetailValue(OpenRows, t)

\* the open lots of a ticker both of whose rates resolve
ConvertedLots(t) ==
    {i \in 1..Len(report.fifo_results[t].open_lots) :
        Resolves(report.fifo_results[t].open_lots[i].buy_date) /\ Resolves(report.today)}

\* the lots an average was taken over
Terms(avg) == IF avg = None THEN 0 ELSE Len(avg[1].terms)

\* C29: No benchmark on unconverted prices. For an open USD lot whose rate at
\* the buy date or today does not resolve, analyze_portfolio reports no real
\* return against the exchange rate or the CPI, and the lot adds nothing to
\* the weighted real returns of its ticker.
C29_NoBenchmarkUnconverted ==
    (Analysed /\ ~report.raised) =>
        /\ \A n \in UsdRows \ ConvertedRows :
              /\ report.results[n].vs_USD.text # "%"
              /\ report.results[n].vs_CPI.text # "%"
        /\ \A t \in DOMAIN report.fifo_results :
              report.fifo_results[t].currency = CURRENCY_USD
                 => /\ Terms(SummaryRow(t).Real_USD) <= Cardinality(ConvertedLots(t))
                    /\ Terms(SummaryRow(t).Real_CPI) <= Cardinality(ConvertedLots(t))

\* ===================================================================
\* Properties of the bulk imports
\* ===================================================================
Imported == call.op \in {"bulk_import_cpi_usd_rates", "bulk_import_cpi_official"}

\* the lines of the text that are well formed: a date (a month) that exists
\* and numbers for the rates
ValidLine(line) ==
    IF call.op = "bulk_import_cpi_usd_rates"
    THEN /\ Len(line) >= 2
         /\ line[1].text = "date" /\ line[1].val \in RateDates
         /\ line[2].text = "number"
    ELSE /\ Len(line) >= 2
         /\ line[1].text \in {"ym", "my"} /\ line[1].val \in Months
         /\ line[2].text = "number"
         /\ Len(line) >= 3 => line[3].text \in {"number", ""}

\* the key a valid line is stored under, and the keys of the table
KeyOf(line) == line[1].val
Keys(rows) ==
    IF call.op = "bulk_import_cpi_usd_rates" THEN {r.date : r \in rows}
    ELSE {r.year_month : r \in rows}
StoredNow == IF call.op = "bulk_import_cpi_usd_rates" THEN cpi_usd_rates ELSE cpi_official

\* C23: Bulk import partial success. Every line is processed on its own: a
\* line with a malformed date or an invalid rate is skipped and recorded in
\* the error list, every valid line is stored, and every non-empty line is
\* either imported or reported as an error.
C23_BulkImportPartialSuccess ==
    Imported =>
        LET lines == NonEmpty(call.lines)
            valid == {i \in 1..Len(lines) : ValidLine(lines[i])}
        IN /\ call.imported = Cardinality(valid)
           /\ Len(call.errors) = Len(lines) - Cardinality(valid)
           /\ Keys(StoredNow) = Keys(call.before) \cup {KeyOf(lines[i]) : i \in valid}

\* ===================================================================
\* The open queue during the replay
\* ===================================================================
\* every lot of a queue holds part of what was bought, at its buy price
OpenLotsOk(open_lots) ==
    \A n \in 1..Len(open_lots) :
       /\ 0 < open_lots[n].remaining_quantity
       /\ open_lots[n].remaining_quantity <= open_lots[n].quantity
       /\ open_lots[n].cost_basis = open_lots[n].buy_price * open_lots[n].remaining_quantity

\* C25: Open-lot invariant. After every step of the replay every lot in the
\* open queue has 0 < remaining_quantity <= quantity and cost_basis =
\* buy_price * remaining_quantity (a lot matched to its last share is no
\* longer in the queue), and no step increases the remaining quantity of a
\* lot that stays in the queue.
C25_OpenLotInvariant ==
    [][/\ OpenLotsOk(fifo'.open_lots)
       /\ \A n \in 1..Len(fifo.open_lots), m \in 1..Len(fifo'.open_lots) :
             fifo.open_lots[n].buy_id = fifo'.open_lots[m].buy_id
                => fifo'.open_lots[m].remaining_quantity
                      <= fifo.open_lots[n].remaining_quantity]_vars

\* a sell has taken part of the oldest lot, behind which another lot waits
C25_Witness ==
    /\ Len(fifo.open_lots) >= 2
    /\ fifo.open_lots[1].remaining_quantity < fifo.open_lots[1].quantity
    /\ fifo.closed_lots # <<>>

\* ===================================================================
\* Properties of the fund_prices table
\* ===================================================================
BulkOps == {"bulk_add_fund_prices", "fetch_stock_prices", "fetch_fund_prices"}
PriceOps == BulkOps \cup {"add_fund_price"}

\* the (date, ticker) a supplied row is stored under
PairOf(p) == <<p[1], ticker_upper(p[2])>>
Pairs(prices) == {<<r.date, r.ticker>> : r \in prices}

\* the rows of a call that are the first to bring a pair the table lacked
FirstOfNew(rows, before) ==
    {i \in 1..Len(rows) : /\ PairOf(rows[i]) \notin Pairs(before)
                          /\ \A j \in 1..(i - 1) : PairOf(rows[j]) # PairOf(rows[i])}

C27_ChunkedFetchCoverage ==
    call.op = "fetch_fund_prices" /\ call.start_dt <= call.end_dt =>
        /\ \A n \in 1..Len(call.requests) :
              /\ call.requests[n].chunk_start <= call.requests[n].chunk_end
              /\ call.requests[n].chunk_end - call.requests[n].chunk_start <= CHUNK_DAYS
        /\ \A d \in call.start_dt..call.end_dt :
              \E n \in 1..Len(call.requests) :
                 call.requests[n].chunk_start <= d /\ d <= call.requests[n].chunk_end
        /\ \A m \in market :
              (\E n \in 1..Len(call.requests) :
                  /\ n \notin call.failed
                  /\ call.requests[n].chunk_start <= m.date
                  /\ m.date <= call.requests[n].chunk_end)
              => \E i \in 1..Len(call.rows) : call.rows[i][1] = m.date

\* ===================================================================
\* Properties of concurrent sells
\* ===================================================================
BothDone == \A p \in Callers : tx_status[p].pc = "done"
BothAccepted == \A p \in Callers : tx_status[p].status = TX_SELL
LaterDate == IF tx_status[1].date > tx_status[2].date THEN tx_status[1].date ELSE tx_status[2].date

\* C30: Concurrent sells. Two add_transaction SELL calls for one ticker that
\* run side by side are not both accepted when their quantities together
\* exceed what was bought up to their dates, and however their steps
\* interleave the log keeps cumulative sells <= cumulative buys on every date.
C30_ConcurrentSells ==
    BothDone =>
        /\ BothAccepted =>
              tx_status[1].quantity + tx_status[2].quantity
                 <= SumCase(transactions, SellTicker, LaterDate, TX_BUY)
        /\ \A D \in Dates :
              SumCase(transactions, SellTicker, D, TX_SELL)
                 <= SumCase(transactions, SellTicker, D, TX_BUY)

====
